---- MODULE Spec2Model ----
(***************************************************************************)
(* Model of the Tableau -> Power BI migration core:                        *)
(*   - CalculationTranslator (src/transformers/calculation_translator.py)  *)
(*   - CanonicalTransformer  (src/transformers/canonical_transformer.py)   *)
(* Strings are sequences of one-character strings, so that the regular     *)
(* expressions of the translator are modelled character by character.      *)
(***************************************************************************)
EXTENDS Integers, Sequences, FiniteSets, TLC

(***************************************************************************)
(* Optional values (Python's None / a value).                              *)
(***************************************************************************)
None == [some |-> FALSE]

Some(v) == [some |-> TRUE, val |-> v]

(***************************************************************************)
(* Characters.                                                             *)
(***************************************************************************)
LowerLetters ==
  {"a", "b", "c", "d", "e", "f", "g", "h", "i", "j", "k", "l", "m",
   "n", "o", "p", "q", "r", "s", "t", "u", "v", "w", "x", "y", "z"}

UpperLetters ==
  {"A", "B", "C", "D", "E", "F", "G", "H", "I", "J", "K", "L", "M",
   "N", "O", "P", "Q", "R", "S", "T", "U", "V", "W", "X", "Y", "Z"}

Digits == {"0", "1", "2", "3", "4", "5", "6", "7", "8", "9"}

Alphabet == <<"a", "b", "c", "d", "e", "f", "g", "h", "i", "j", "k", "l", "m",
              "n", "o", "p", "q", "r", "s", "t", "u", "v", "w", "x", "y", "z">>

UpperOf ==
  [c \in LowerLetters |->
     CASE c = "a" -> "A"
       [] c = "b" -> "B"
       [] c = "c" -> "C"
       [] c = "d" -> "D"
       [] c = "e" -> "E"
       [] c = "f" -> "F"
       [] c = "g" -> "G"
       [] c = "h" -> "H"
       [] c = "i" -> "I"
       [] c = "j" -> "J"
       [] c = "k" -> "K"
       [] c = "l" -> "L"
       [] c = "m" -> "M"
       [] c = "n" -> "N"
       [] c = "o" -> "O"
       [] c = "p" -> "P"
       [] c = "q" -> "Q"
       [] c = "r" -> "R"
       [] c = "s" -> "S"
       [] c = "t" -> "T"
       [] c = "u" -> "U"
       [] c = "v" -> "V"
       [] c = "w" -> "W"
       [] c = "x" -> "X"
       [] c = "y" -> "Y"
       [] c = "z" -> "Z"]

LowerOf == [c \in UpperLetters |-> CHOOSE l \in LowerLetters : UpperOf[l] = c]

\* str.upper() on one character
Upper1(c) == IF c \in LowerLetters THEN UpperOf[c] ELSE c

\* str.lower() on one character
Lower1(c) == IF c \in UpperLetters THEN LowerOf[c] ELSE c

\* str.upper()
StrUpper(s) == [i \in 1..Len(s) |-> Upper1(s[i])]

\* str.lower()
StrLower(s) == [i \in 1..Len(s) |-> Lower1(s[i])]

WordChars == LowerLetters \cup UpperLetters \cup Digits \cup {"_"}

\* regex \w
IsWord(c) == c \in WordChars

\* regex \s and the characters str.strip() removes
IsSpace(c) == c = " "

\* the character at position i, "" outside the string
CharAt(s, i) == IF i >= 1 /\ i <= Len(s) THEN s[i] ELSE ""

SetMin(S) == CHOOSE m \in S : \A n \in S : m <= n

RECURSIVE LStrip(_)
LStrip(s) == IF Len(s) > 0 /\ IsSpace(Head(s)) THEN LStrip(Tail(s)) ELSE s

RECURSIVE RStrip(_)
RStrip(s) ==
  IF Len(s) > 0 /\ IsSpace(s[Len(s)]) THEN RStrip(SubSeq(s, 1, Len(s) - 1)) ELSE s

\* str.strip()
Strip(s) == RStrip(LStrip(s))

\* c in s
Contains(s, c) == \E i \in 1..Len(s) : s[i] = c

\* e, evaluated once the string s has been computed: each iteration of a loop
\* over a table works on the finished result of the iterations before it
Then(s, e) == IF Len(s) >= 0 THEN e ELSE e

\* the least element of S, 0 when S is empty
First(S) == IF S = {} THEN 0 ELSE SetMin(S)

\* index of the first c at or after position i, 0 when there is none
IndexOf(s, c, i) == First({j \in i..Len(s) : s[j] = c})

\* the literal lit matches s at position i (ci: re.IGNORECASE)
MatchAt(s, i, lit, ci) ==
  /\ i >= 1
  /\ i + Len(lit) - 1 <= Len(s)
  /\ \A k \in 1..Len(lit) :
       IF ci THEN Upper1(s[i + k - 1]) = Upper1(lit[k]) ELSE s[i + k - 1] = lit[k]

\* regex \b between positions i-1 and i
WordBoundary(s, i) == IsWord(CharAt(s, i - 1)) # IsWord(CharAt(s, i))

\* regex \s* from position i (greedy): the first position that is not a space
SkipSpace(s, i) ==
  LET Leftmost(rest) == IF rest = {} THEN Len(s) + 1 ELSE SetMin(rest)
  IN  Leftmost({j \in i..Len(s) : ~IsSpace(s[j])})

\* rf'\b{name}\s*\(' (wb: with the leading \b) matched at position i:
\* the position of '(' , 0 when there is no match at i
CallAt(s, i, name, wb, ci) ==
  LET Opened(p) == IF CharAt(s, p) = "(" THEN p ELSE 0
  IN  IF MatchAt(s, i, name, ci) /\ (wb => WordBoundary(s, i))
      THEN Opened(SkipSpace(s, i + Len(name)))
      ELSE 0

\* re.search(rf'\b{name}\s*\(', s)
SearchCall(s, name, wb, ci) == \E i \in 1..Len(s) : CallAt(s, i, name, wb, ci) # 0

\* s from position i to its end
From(s, i) == SubSeq(s, i, Len(s))

\* re.sub(rf'\b{name}\s*\(', f'{repl}(', s, flags=re.IGNORECASE), from position i:
\* the leftmost match at or after i is replaced, then the scan resumes after it
RECURSIVE SubCall(_, _, _, _)
SubCall(s, i, name, repl) ==
  LET Replaced(j, p) ==
        IF j = 0 THEN From(s, i)
        ELSE SubSeq(s, i, j - 1) \o repl \o <<"(">> \o SubCall(s, p + 1, name, repl)
      Leftmost(j) == Replaced(j, CallAt(s, j, name, TRUE, TRUE))
  IN  Leftmost(First({n \in i..Len(s) : CallAt(s, n, name, TRUE, TRUE) # 0}))

(***************************************************************************)
(* ConfidenceLevel: the members and their .value labels.                   *)
(***************************************************************************)
ConfidenceLevel == {"HIGH", "MEDIUM", "LOW", "UNSUPPORTED"}

ConfidenceValue ==
  [HIGH |-> <<"h", "i", "g", "h">>,
   MEDIUM |-> <<"m", "e", "d", "i", "u", "m">>,
   LOW |-> <<"l", "o", "w">>,
   UNSUPPORTED |-> <<"u", "n", "s", "u", "p", "p", "o", "r", "t", "e", "d">>]

\* code point order of the lower-case letters
Ord(c) == CHOOSE k \in 1..Len(Alphabet) : Alphabet[k] = c

\* Python's a < b on strings (lexicographic by code point)
RECURSIVE StrLess(_, _)
StrLess(a, b) ==
  IF b = <<>> THEN FALSE
  ELSE IF a = <<>> THEN TRUE
  ELSE IF Head(a) = Head(b) THEN StrLess(Tail(a), Tail(b))
  ELSE Ord(Head(a)) < Ord(Head(b))

\* x.value < y.value, the comparison _translate_expression makes
ValueLess(x, y) == StrLess(ConfidenceValue[x], ConfidenceValue[y])

AGGREGATION_MAP ==
  << [name |-> <<"S", "U", "M">>, dax |-> <<"S", "U", "M">>, kind |-> "sum"],
     [name |-> <<"C", "O", "U", "N", "T">>, dax |-> <<"C", "O", "U", "N", "T">>, kind |-> "count"],
     [name |-> <<"C", "O", "U", "N", "T", "D">>, dax |-> <<"D", "I", "S", "T", "I", "N", "C", "T", "C", "O", "U", "N", "T">>, kind |-> "countd"],
     [name |-> <<"A", "V", "G">>, dax |-> <<"A", "V", "E", "R", "A", "G", "E">>, kind |-> "average"],
     [name |-> <<"A", "V", "E", "R", "A", "G", "E">>, dax |-> <<"A", "V", "E", "R", "A", "G", "E">>, kind |-> "average"],
     [name |-> <<"M", "I", "N">>, dax |-> <<"M", "I", "N">>, kind |-> "min"],
     [name |-> <<"M", "A", "X">>, dax |-> <<"M", "A", "X">>, kind |-> "max"],
     [name |-> <<"M", "E", "D", "I", "A", "N">>, dax |-> <<"M", "E", "D", "I", "A", "N">>, kind |-> "median"],
     [name |-> <<"S", "T", "D", "E", "V">>, dax |-> <<"S", "T", "D", "E", "V", ".", "S">>, kind |-> "stdev"],
     [name |-> <<"V", "A", "R">>, dax |-> <<"V", "A", "R", ".", "S">>, kind |-> "variance"],
     [name |-> <<"A", "T", "T", "R">>, dax |-> <<"S", "E", "L", "E", "C", "T", "E", "D", "V", "A", "L", "U", "E">>, kind |-> "none"] >>

FUNCTION_MAP ==
  << [name |-> <<"L", "E", "N">>, dax |-> Some(<<"L", "E", "N">>)],
     [name |-> <<"L", "E", "F", "T">>, dax |-> Some(<<"L", "E", "F", "T">>)],
     [name |-> <<"R", "I", "G", "H", "T">>, dax |-> Some(<<"R", "I", "G", "H", "T">>)],
     [name |-> <<"M", "I", "D">>, dax |-> Some(<<"M", "I", "D">>)],
     [name |-> <<"U", "P", "P", "E", "R">>, dax |-> Some(<<"U", "P", "P", "E", "R">>)],
     [name |-> <<"L", "O", "W", "E", "R">>, dax |-> Some(<<"L", "O", "W", "E", "R">>)],
     [name |-> <<"T", "R", "I", "M">>, dax |-> Some(<<"T", "R", "I", "M">>)],
     [name |-> <<"L", "T", "R", "I", "M">>, dax |-> Some(<<"T", "R", "I", "M">>)],
     [name |-> <<"R", "T", "R", "I", "M">>, dax |-> Some(<<"T", "R", "I", "M">>)],
     [name |-> <<"C", "O", "N", "T", "A", "I", "N", "S">>, dax |-> Some(<<"C", "O", "N", "T", "A", "I", "N", "S", "S", "T", "R", "I", "N", "G">>)],
     [name |-> <<"R", "E", "P", "L", "A", "C", "E">>, dax |-> Some(<<"S", "U", "B", "S", "T", "I", "T", "U", "T", "E">>)],
     [name |-> <<"S", "P", "A", "C", "E">>, dax |-> Some(<<"R", "E", "P", "T">>)],
     [name |-> <<"S", "P", "L", "I", "T">>, dax |-> None],
     [name |-> <<"T", "O", "D", "A", "Y">>, dax |-> Some(<<"T", "O", "D", "A", "Y">>)],
     [name |-> <<"N", "O", "W">>, dax |-> Some(<<"N", "O", "W">>)],
     [name |-> <<"Y", "E", "A", "R">>, dax |-> Some(<<"Y", "E", "A", "R">>)],
     [name |-> <<"M", "O", "N", "T", "H">>, dax |-> Some(<<"M", "O", "N", "T", "H">>)],
     [name |-> <<"D", "A", "Y">>, dax |-> Some(<<"D", "A", "Y">>)],
     [name |-> <<"D", "A", "T", "E", "A", "D", "D">>, dax |-> Some(<<"D", "A", "T", "E", "A", "D", "D">>)],
     [name |-> <<"D", "A", "T", "E", "D", "I", "F", "F">>, dax |-> Some(<<"D", "A", "T", "E", "D", "I", "F", "F">>)],
     [name |-> <<"D", "A", "T", "E", "P", "A", "R", "T">>, dax |-> None],
     [name |-> <<"D", "A", "T", "E", "T", "R", "U", "N", "C">>, dax |-> None],
     [name |-> <<"D", "A", "T", "E", "N", "A", "M", "E">>, dax |-> Some(<<"F", "O", "R", "M", "A", "T">>)],
     [name |-> <<"A", "B", "S">>, dax |-> Some(<<"A", "B", "S">>)],
     [name |-> <<"R", "O", "U", "N", "D">>, dax |-> Some(<<"R", "O", "U", "N", "D">>)],
     [name |-> <<"C", "E", "I", "L", "I", "N", "G">>, dax |-> Some(<<"C", "E", "I", "L", "I", "N", "G">>)],
     [name |-> <<"F", "L", "O", "O", "R">>, dax |-> Some(<<"F", "L", "O", "O", "R">>)],
     [name |-> <<"P", "O", "W", "E", "R">>, dax |-> Some(<<"P", "O", "W", "E", "R">>)],
     [name |-> <<"S", "Q", "R", "T">>, dax |-> Some(<<"S", "Q", "R", "T">>)],
     [name |-> <<"L", "O", "G">>, dax |-> Some(<<"L", "O", "G">>)],
     [name |-> <<"L", "N">>, dax |-> Some(<<"L", "N">>)],
     [name |-> <<"E", "X", "P">>, dax |-> Some(<<"E", "X", "P">>)],
     [name |-> <<"S", "I", "G", "N">>, dax |-> Some(<<"S", "I", "G", "N">>)],
     [name |-> <<"D", "I", "V">>, dax |-> Some(<<"D", "I", "V", "I", "D", "E">>)],
     [name |-> <<"Z", "N">>, dax |-> Some(<<"I", "F">>)],
     [name |-> <<"I", "F">>, dax |-> Some(<<"I", "F">>)],
     [name |-> <<"I", "I", "F">>, dax |-> Some(<<"I", "F">>)],
     [name |-> <<"C", "A", "S", "E">>, dax |-> Some(<<"S", "W", "I", "T", "C", "H">>)],
     [name |-> <<"I", "F", "N", "U", "L", "L">>, dax |-> Some(<<"I", "F">>)],
     [name |-> <<"I", "S", "N", "U", "L", "L">>, dax |-> Some(<<"I", "S", "B", "L", "A", "N", "K">>)],
     [name |-> <<"A", "N", "D">>, dax |-> Some(<<"A", "N", "D">>)],
     [name |-> <<"O", "R">>, dax |-> Some(<<"O", "R">>)],
     [name |-> <<"N", "O", "T">>, dax |-> Some(<<"N", "O", "T">>)],
     [name |-> <<"I", "N", "T">>, dax |-> Some(<<"I", "N", "T">>)],
     [name |-> <<"F", "L", "O", "A", "T">>, dax |-> Some(<<"V", "A", "L", "U", "E">>)],
     [name |-> <<"S", "T", "R">>, dax |-> Some(<<"F", "O", "R", "M", "A", "T">>)],
     [name |-> <<"D", "A", "T", "E">>, dax |-> Some(<<"D", "A", "T", "E">>)],
     [name |-> <<"D", "A", "T", "E", "T", "I", "M", "E">>, dax |-> Some(<<"D", "A", "T", "E", "T", "I", "M", "E">>)] >>

UNSUPPORTED_FUNCTIONS ==
  << [name |-> <<"F", "I", "X", "E", "D">>, reason |-> "LOD Expression - FIXED"],
     [name |-> <<"I", "N", "C", "L", "U", "D", "E">>, reason |-> "LOD Expression - INCLUDE"],
     [name |-> <<"E", "X", "C", "L", "U", "D", "E">>, reason |-> "LOD Expression - EXCLUDE"],
     [name |-> <<"L", "O", "O", "K", "U", "P">>, reason |-> "Table Calculation - LOOKUP"],
     [name |-> <<"P", "R", "E", "V", "I", "O", "U", "S", "_", "V", "A", "L", "U", "E">>, reason |-> "Table Calculation - PREVIOUS_VALUE"],
     [name |-> <<"F", "I", "R", "S", "T">>, reason |-> "Table Calculation - FIRST"],
     [name |-> <<"L", "A", "S", "T">>, reason |-> "Table Calculation - LAST"],
     [name |-> <<"I", "N", "D", "E", "X">>, reason |-> "Table Calculation - INDEX"],
     [name |-> <<"S", "I", "Z", "E">>, reason |-> "Table Calculation - SIZE"],
     [name |-> <<"R", "U", "N", "N", "I", "N", "G", "_", "S", "U", "M">>, reason |-> "Table Calculation - RUNNING_SUM"],
     [name |-> <<"R", "U", "N", "N", "I", "N", "G", "_", "A", "V", "G">>, reason |-> "Table Calculation - RUNNING_AVG"],
     [name |-> <<"R", "U", "N", "N", "I", "N", "G", "_", "C", "O", "U", "N", "T">>, reason |-> "Table Calculation - RUNNING_COUNT"],
     [name |-> <<"R", "U", "N", "N", "I", "N", "G", "_", "M", "I", "N">>, reason |-> "Table Calculation - RUNNING_MIN"],
     [name |-> <<"R", "U", "N", "N", "I", "N", "G", "_", "M", "A", "X">>, reason |-> "Table Calculation - RUNNING_MAX"],
     [name |-> <<"W", "I", "N", "D", "O", "W", "_", "S", "U", "M">>, reason |-> "Table Calculation - WINDOW_SUM"],
     [name |-> <<"W", "I", "N", "D", "O", "W", "_", "A", "V", "G">>, reason |-> "Table Calculation - WINDOW_AVG"],
     [name |-> <<"W", "I", "N", "D", "O", "W", "_", "M", "I", "N">>, reason |-> "Table Calculation - WINDOW_MIN"],
     [name |-> <<"W", "I", "N", "D", "O", "W", "_", "M", "A", "X">>, reason |-> "Table Calculation - WINDOW_MAX"],
     [name |-> <<"W", "I", "N", "D", "O", "W", "_", "C", "O", "U", "N", "T">>, reason |-> "Table Calculation - WINDOW_COUNT"],
     [name |-> <<"W", "I", "N", "D", "O", "W", "_", "M", "E", "D", "I", "A", "N">>, reason |-> "Table Calculation - WINDOW_MEDIAN"],
     [name |-> <<"W", "I", "N", "D", "O", "W", "_", "S", "T", "D", "E", "V">>, reason |-> "Table Calculation - WINDOW_STDEV"],
     [name |-> <<"W", "I", "N", "D", "O", "W", "_", "V", "A", "R">>, reason |-> "Table Calculation - WINDOW_VAR"],
     [name |-> <<"R", "A", "N", "K">>, reason |-> "Table Calculation - RANK"],
     [name |-> <<"R", "A", "N", "K", "_", "D", "E", "N", "S", "E">>, reason |-> "Table Calculation - RANK_DENSE"],
     [name |-> <<"R", "A", "N", "K", "_", "M", "O", "D", "I", "F", "I", "E", "D">>, reason |-> "Table Calculation - RANK_MODIFIED"],
     [name |-> <<"R", "A", "N", "K", "_", "P", "E", "R", "C", "E", "N", "T", "I", "L", "E">>, reason |-> "Table Calculation - RANK_PERCENTILE"],
     [name |-> <<"R", "A", "N", "K", "_", "U", "N", "I", "Q", "U", "E">>, reason |-> "Table Calculation - RANK_UNIQUE"],
     [name |-> <<"T", "O", "T", "A", "L">>, reason |-> "Table Calculation - TOTAL"],
     [name |-> <<"S", "C", "R", "I", "P", "T", "_", "B", "O", "O", "L">>, reason |-> "R/Python Integration"],
     [name |-> <<"S", "C", "R", "I", "P", "T", "_", "I", "N", "T">>, reason |-> "R/Python Integration"],
     [name |-> <<"S", "C", "R", "I", "P", "T", "_", "R", "E", "A", "L">>, reason |-> "R/Python Integration"],
     [name |-> <<"S", "C", "R", "I", "P", "T", "_", "S", "T", "R">>, reason |-> "R/Python Integration"] >>


(***************************************************************************)
(* CalculationTranslator                                                   *)
(***************************************************************************)
LodKeywords ==
  << <<"F", "I", "X", "E", "D">>,
     <<"I", "N", "C", "L", "U", "D", "E">>,
     <<"E", "X", "C", "L", "U", "D", "E">> >>

\* LodAt without re.IGNORECASE
LodAt_case_sensitive(s, i) ==
  LET Keyword(p, ks) ==
        IF ks = {} THEN None
        ELSE Some(SubSeq(s, p, p + Len(LodKeywords[SetMin(ks)]) - 1))
      After(p) ==
        Keyword(p, {k \in 1..Len(LodKeywords) : MatchAt(s, p, LodKeywords[k], FALSE)})
  IN  IF s[i] = "{" THEN After(SkipSpace(s, i + 1)) ELSE None

\* r'\{\s*(FIXED|INCLUDE|EXCLUDE)' with re.IGNORECASE matched at position i:
\* group(1), None when there is no match at i
LodAt(s, i) ==
  LET Keyword(p, ks) ==
        IF ks = {} THEN None
        ELSE Some(SubSeq(s, p, p + Len(LodKeywords[SetMin(ks)]) - 1))
      After(p) ==
        Keyword(p, {k \in 1..Len(LodKeywords) : MatchAt(s, p, LodKeywords[k], TRUE)})
  IN  IF s[i] = "{" THEN After(SkipSpace(s, i + 1)) ELSE None

\* re.search(r'\{\s*(FIXED|INCLUDE|EXCLUDE)', formula, re.IGNORECASE)
LodSearch(s) ==
  LET Leftmost(hits) == IF hits = {} THEN None ELSE LodAt(s, SetMin(hits))
  IN  Leftmost({i \in 1..Len(s) : LodAt(s, i).some})

\* a reason string; keyword is the interpolated part of an f-string
Reason(prefix, keyword, suffix) ==
  [prefix |-> prefix, keyword |-> keyword, suffix |-> suffix]

\* _check_unsupported searching the formula as written instead of formula_upper
check_unsupported_as_written(formula) ==
  LET Found(lod_match, hits) ==
        IF lod_match.some
        THEN Some(Reason("LOD Expression (", StrUpper(lod_match.val),
                         ") - Not supported in DAX"))
        ELSE IF hits # {}
        THEN Some(Reason(UNSUPPORTED_FUNCTIONS[SetMin(hits)].reason, <<>>, ""))
        ELSE None
      Hits(table) ==
        {k \in 1..Len(table) : SearchCall(formula, table[k].name, TRUE, FALSE)}
  IN  Found(IF Contains(formula, "{") /\ Contains(formula, "}")
            THEN LodSearch(formula) ELSE None,
            Hits(UNSUPPORTED_FUNCTIONS))

\* CalculationTranslator._check_unsupported
check_unsupported(formula) ==
  LET Found(lod_match, hits) ==
        IF lod_match.some
        THEN Some(Reason("LOD Expression (", StrUpper(lod_match.val),
                         ") - Not supported in DAX"))
        ELSE IF hits # {}
        THEN Some(Reason(UNSUPPORTED_FUNCTIONS[SetMin(hits)].reason, <<>>, ""))
        ELSE None
      Hits(formula_upper, table) ==
        {k \in 1..Len(table) : SearchCall(formula_upper, table[k].name, TRUE, FALSE)}
  IN  Found(IF Contains(formula, "{") /\ Contains(formula, "}")
            THEN LodSearch(formula) ELSE None,
            Hits(StrUpper(formula), UNSUPPORTED_FUNCTIONS))

\* r'(?<!\w)\[([^\]]+)\]' matched at position i: the position of ']', else 0
FieldAt(s, i) ==
  LET Closed(q) == IF q > i + 1 THEN q ELSE 0
  IN  IF s[i] = "[" /\ ~IsWord(CharAt(s, i - 1))
      THEN Closed(IndexOf(s, "]", i + 1))
      ELSE 0

\* re.sub(r'(?<!\w)\[([^\]]+)\]', replace_field, formula), from position i
RECURSIVE QualifyFrom(_, _, _)
QualifyFrom(s, i, table_name) ==
  LET Replaced(j, q) ==
        IF j = 0 THEN From(s, i)
        ELSE SubSeq(s, i, j - 1) \o <<"'">> \o table_name \o <<"'", "[">>
               \o SubSeq(s, j + 1, q - 1) \o <<"]">> \o QualifyFrom(s, q + 1, table_name)
      Leftmost(j) == Replaced(j, FieldAt(s, j))
  IN  Leftmost(First({n \in i..Len(s) : FieldAt(s, n) # 0}))

\* CalculationTranslator._qualify_field_references
qualify_field_references(formula, table_name) == QualifyFrom(formula, 1, table_name)

\* rf'\b{name}\s*\(([^)]+)\)' with re.IGNORECASE matched at position i:
\* <<position of '(' , position of ')'>>, <<0, 0>> when there is no match
AggAt(s, i, name) ==
  LET Closed(p, q) == IF q > p + 1 THEN <<p, q>> ELSE <<0, 0>>
      Opened(p) == IF p = 0 THEN <<0, 0>> ELSE Closed(p, IndexOf(s, ")", p + 1))
  IN  Opened(CallAt(s, i, name, TRUE, TRUE))

\* re.sub(pattern, replace_agg, result, flags=re.IGNORECASE), from position i
RECURSIVE SubAgg(_, _, _, _)
SubAgg(s, i, name, dax_func) ==
  LET Replaced(j, m) ==
        IF j = 0 THEN From(s, i)
        ELSE SubSeq(s, i, j - 1) \o dax_func \o <<"(">>
               \o Strip(SubSeq(s, m[1] + 1, m[2] - 1)) \o <<")">>
               \o SubAgg(s, m[2] + 1, name, dax_func)
      Leftmost(j) == Replaced(j, AggAt(s, j, name))
  IN  Leftmost(First({n \in i..Len(s) : AggAt(s, n, name)[1] # 0}))

\* the iterations lo..hi of the loop of _translate_aggregations over
\* AGGREGATION_MAP, in the order of the table (the range is halved, the first
\* half runs before the second)
RECURSIVE AggregationsLoop(_, _, _)
AggregationsLoop(lo, hi, result) ==
  LET Step(entry) == SubAgg(result, 1, entry.name, entry.dax)
      Second(mid, first) == Then(first, AggregationsLoop(mid + 1, hi, first))
      Halved(mid) == Second(mid, AggregationsLoop(lo, mid, result))
  IN  IF lo > hi THEN result
      ELSE IF lo = hi THEN Step(AGGREGATION_MAP[lo])
      ELSE Halved((lo + hi) \div 2)

\* CalculationTranslator._translate_aggregations
translate_aggregations(formula) ==
  [result |-> AggregationsLoop(1, Len(AGGREGATION_MAP), formula), confidence |-> "HIGH"]

ZN == <<"Z", "N">>

IFNULL == <<"I", "F", "N", "U", "L", "L">>

IfIsBlank(expr, default) ==
  <<"I", "F", "(", "I", "S", "B", "L", "A", "N", "K", "(">> \o expr
    \o <<")", ",", " ">> \o default \o <<",", " ">> \o expr \o <<")">>

\* r'ZN\s*\(([^)]+)\)' with re.IGNORECASE matched at position i
ZnAt(s, i) ==
  LET Closed(p, q) == IF q > p + 1 THEN <<p, q>> ELSE <<0, 0>>
      Opened(p) == IF p = 0 THEN <<0, 0>> ELSE Closed(p, IndexOf(s, ")", p + 1))
  IN  Opened(CallAt(s, i, ZN, FALSE, TRUE))

RECURSIVE SubZn(_, _)
SubZn(s, i) ==
  LET Replaced(j, m) ==
        IF j = 0 THEN From(s, i)
        ELSE SubSeq(s, i, j - 1) \o IfIsBlank(SubSeq(s, m[1] + 1, m[2] - 1), <<"0">>)
               \o SubZn(s, m[2] + 1)
      Leftmost(j) == Replaced(j, ZnAt(s, j))
  IN  Leftmost(First({n \in i..Len(s) : ZnAt(s, n)[1] # 0}))

\* r'IFNULL\s*\(([^,]+),\s*([^)]+)\)' with re.IGNORECASE matched at position i:
\* <<'(' , ',' , start of group 2, ')'>>, all 0 when there is no match
IfnullAt(s, i) ==
  LET Closed(p, c, g, q) ==
        IF q > g /\ g # 0 THEN <<p, c, g, q>> ELSE <<0, 0, 0, 0>>
      Second(p, c, g) == Closed(p, c, g, IF g = 0 THEN 0 ELSE IndexOf(s, ")", g))
      \* \s* gives one space back when ')' follows the spaces directly
      Blanks(p, c, w) ==
        Second(p, c, IF w = 0 THEN 0
                     ELSE IF CharAt(s, w) = ")" THEN (IF w > c + 1 THEN w - 1 ELSE 0)
                     ELSE w)
      Comma(p, c) == Blanks(p, c, IF c > p + 1 THEN SkipSpace(s, c + 1) ELSE 0)
      Opened(p) == Comma(p, IF p = 0 THEN 0 ELSE IndexOf(s, ",", p + 1))
  IN  Opened(CallAt(s, i, IFNULL, FALSE, TRUE))

RECURSIVE SubIfnull(_, _)
SubIfnull(s, i) ==
  LET Replaced(j, m) ==
        IF j = 0 THEN From(s, i)
        ELSE SubSeq(s, i, j - 1)
               \o IfIsBlank(SubSeq(s, m[1] + 1, m[2] - 1), SubSeq(s, m[3], m[4] - 1))
               \o SubIfnull(s, m[4] + 1)
      Leftmost(j) == Replaced(j, IfnullAt(s, j))
  IN  Leftmost(First({n \in i..Len(s) : IfnullAt(s, n)[1] # 0}))

\* CalculationTranslator._handle_special_functions
handle_special_functions(formula) ==
  LET Second(zn) == Then(zn, SubIfnull(zn, 1))
  IN  Second(SubZn(formula, 1))

\* one iteration of the loop of _translate_functions: entry k of FUNCTION_MAP
FunctionsStep(k, result, confidence) ==
  LET Step(entry) ==
        IF ~entry.dax.some
        THEN [result |-> result,
              confidence |-> IF SearchCall(result, entry.name, TRUE, TRUE)
                             THEN "MEDIUM" ELSE confidence]
        ELSE [result |-> SubCall(result, 1, entry.name, entry.dax.val),
              confidence |-> confidence]
  IN  Step(FUNCTION_MAP[k])

\* the iterations lo..hi of the loop of _translate_functions over FUNCTION_MAP,
\* in the order of the table (the range is halved, the first half runs before
\* the second)
RECURSIVE FunctionsLoop(_, _, _, _)
FunctionsLoop(lo, hi, result, confidence) ==
  LET Second(mid, first) ==
        Then(first.result, FunctionsLoop(mid + 1, hi, first.result, first.confidence))
      Halved(mid) == Second(mid, FunctionsLoop(lo, mid, result, confidence))
  IN  IF lo > hi THEN [result |-> result, confidence |-> confidence]
      ELSE IF lo = hi THEN FunctionsStep(lo, result, confidence)
      ELSE Halved((lo + hi) \div 2)

\* CalculationTranslator._translate_functions
translate_functions(formula) ==
  LET Special(r) ==
        [result |-> handle_special_functions(r.result), confidence |-> r.confidence]
  IN  Special(FunctionsLoop(1, Len(FUNCTION_MAP), formula, "HIGH"))

\* CalculationTranslator._translate_operators
translate_operators(formula) == formula

CASE_KW == <<"C", "A", "S", "E">>

\* re.search(r'\bCASE\b', result, re.IGNORECASE)
SearchCase(s) ==
  \E i \in 1..Len(s) :
    /\ MatchAt(s, i, CASE_KW, TRUE)
    /\ WordBoundary(s, i)
    /\ WordBoundary(s, i + Len(CASE_KW))

\* CalculationTranslator._translate_conditionals
translate_conditionals(formula) ==
  [result |-> formula, confidence |-> IF SearchCase(formula) THEN "MEDIUM" ELSE "HIGH"]

\* the update "if stage_conf.value < confidence.value: confidence = stage_conf"
Lowered(confidence, stage_conf) ==
  IF ValueLess(stage_conf, confidence) THEN stage_conf ELSE confidence

\* CalculationTranslator._translate_expression; the stage confidences are kept
translate_expression(formula, table_name) ==
  LET Finished(agg, func, cond) ==
        [result |-> cond.result,
         confidence |-> Lowered(Lowered(Lowered("HIGH", agg.confidence),
                                        func.confidence),
                                cond.confidence),
         agg_conf |-> agg.confidence, func_conf |-> func.confidence,
         cond_conf |-> cond.confidence]
      Conditionals(agg, func) ==
        Then(func.result,
             Finished(agg, func, translate_conditionals(translate_operators(func.result))))
      Functions(agg) ==
        Then(agg.result, Conditionals(agg, translate_functions(agg.result)))
      Aggregations(qualified) ==
        Then(qualified, Functions(translate_aggregations(qualified)))
  IN  Aggregations(qualify_field_references(formula, table_name))

\* "not tableau_formula": None or the empty string
Falsy(opt) == ~opt.some \/ opt.val = <<>>

NoStages == [agg_conf |-> "none", func_conf |-> "none", cond_conf |-> "none"]

\* translate without its try/except: an exception of the rewrite stage leaves
\* the caller without a triple
translate_without_handler(table_name, tableau_formula, raises) ==
  LET Rewritten(r) ==
        [expr |-> Some(r.result), confidence |-> r.confidence, reason |-> None,
         stages |-> [agg_conf |-> r.agg_conf, func_conf |-> r.func_conf,
                     cond_conf |-> r.cond_conf],
         rewritten |-> TRUE, raised |-> FALSE]
      Checked(formula, unsupported_reason) ==
        IF Then(formula, unsupported_reason.some)
        THEN [expr |-> None, confidence |-> "UNSUPPORTED",
              reason |-> unsupported_reason, stages |-> NoStages,
              rewritten |-> FALSE, raised |-> FALSE]
        ELSE IF raises
        THEN [expr |-> None, confidence |-> "none", reason |-> None,
              stages |-> NoStages, rewritten |-> FALSE, raised |-> TRUE]
        ELSE Rewritten(translate_expression(formula, table_name))
      Stripped(formula) == Checked(formula, check_unsupported(formula))
  IN  IF Falsy(tableau_formula)
      THEN [expr |-> None, confidence |-> "HIGH", reason |-> None,
            stages |-> NoStages, rewritten |-> FALSE, raised |-> FALSE]
      ELSE Stripped(Strip(tableau_formula.val))

\* CalculationTranslator.translate; raises: the rewrite stage inside the try
\* block raised an exception, which the except clause turns into a triple.  With
\* the returned triple are recorded the stage confidences, whether the rewrite
\* stage ran to its end (rewritten) and whether it raised (raised).
translate(table_name, tableau_formula, raises) ==
  LET Rewritten(r) ==
        [expr |-> Some(r.result), confidence |-> r.confidence, reason |-> None,
         stages |-> [agg_conf |-> r.agg_conf, func_conf |-> r.func_conf,
                     cond_conf |-> r.cond_conf],
         rewritten |-> TRUE, raised |-> FALSE]
      Checked(formula, unsupported_reason) ==
        IF Then(formula, unsupported_reason.some)
        THEN [expr |-> None, confidence |-> "UNSUPPORTED",
              reason |-> unsupported_reason, stages |-> NoStages,
              rewritten |-> FALSE, raised |-> FALSE]
        ELSE IF raises
        THEN [expr |-> None, confidence |-> "LOW",
              reason |-> Some(Reason("Translation error: ", <<>>, "")),
              stages |-> NoStages, rewritten |-> FALSE, raised |-> TRUE]
        ELSE Rewritten(translate_expression(formula, table_name))
      Stripped(formula) == Checked(formula, check_unsupported(formula))
  IN  IF Falsy(tableau_formula)
      THEN [expr |-> None, confidence |-> "HIGH", reason |-> None,
            stages |-> NoStages, rewritten |-> FALSE, raised |-> FALSE]
      ELSE Stripped(Strip(tableau_formula.val))

\* get_aggregation_type that searches the formula as written, not its upper
\* case
get_aggregation_type_case_sensitive(formula) ==
  LET First_hit(hits) ==
        IF hits = {} THEN "none" ELSE AGGREGATION_MAP[SetMin(hits)].kind
      Hits(text, table) ==
        {k \in 1..Len(table) : SearchCall(text, table[k].name, TRUE, FALSE)}
  IN  IF Falsy(formula) THEN "none"
      ELSE First_hit(Hits(formula.val, AGGREGATION_MAP))

\* CalculationTranslator.get_aggregation_type
get_aggregation_type(formula) ==
  LET First_hit(hits) ==
        IF hits = {} THEN "none" ELSE AGGREGATION_MAP[SetMin(hits)].kind
      Hits(formula_upper, table) ==
        {k \in 1..Len(table) : SearchCall(formula_upper, table[k].name, TRUE, FALSE)}
  IN  IF Falsy(formula) THEN "none"
      ELSE First_hit(Hits(StrUpper(formula.val), AGGREGATION_MAP))

(***************************************************************************)
(* The extracted workbook (models/tableau_schema.py) and the parts that    *)
(* the workbooks of the model are made of.                                 *)
(***************************************************************************)
\* str.find(sub) >= 0
ContainsStr(s, sub) == \E i \in 1..Len(s) : MatchAt(s, i, sub, FALSE)

LodWords == LodKeywords

table_calc_funcs ==
  <<<<"L", "O", "O", "K", "U", "P">>, <<"P", "R", "E", "V", "I", "O", "U", "S", "_", "V", "A", "L", "U", "E">>, <<"F", "I", "R", "S", "T">>, <<"L", "A", "S", "T">>, <<"I", "N", "D", "E", "X">>,
    <<"R", "U", "N", "N", "I", "N", "G", "_", "S", "U", "M">>, <<"R", "U", "N", "N", "I", "N", "G", "_", "A", "V", "G">>, <<"R", "U", "N", "N", "I", "N", "G", "_", "C", "O", "U", "N", "T">>, <<"R", "U", "N", "N", "I", "N", "G", "_", "M", "I", "N">>,
    <<"R", "U", "N", "N", "I", "N", "G", "_", "M", "A", "X">>,
    <<"W", "I", "N", "D", "O", "W", "_", "S", "U", "M">>, <<"W", "I", "N", "D", "O", "W", "_", "A", "V", "G">>, <<"W", "I", "N", "D", "O", "W", "_", "M", "I", "N">>, <<"W", "I", "N", "D", "O", "W", "_", "M", "A", "X">>,
    <<"W", "I", "N", "D", "O", "W", "_", "C", "O", "U", "N", "T">>,
    <<"R", "A", "N", "K">>, <<"R", "A", "N", "K", "_", "D", "E", "N", "S", "E">>, <<"R", "A", "N", "K", "_", "M", "O", "D", "I", "F", "I", "E", "D">>, <<"R", "A", "N", "K", "_", "P", "E", "R", "C", "E", "N", "T", "I", "L", "E">>,
    <<"R", "A", "N", "K", "_", "U", "N", "I", "Q", "U", "E">>,
    <<"S", "I", "Z", "E">>, <<"T", "O", "T", "A", "L">>>>

\* TableauExtractor._classify_calculation; formula is a string
classify_calculation(formula) ==
  LET Classified(formula_upper) ==
        IF /\ \E k \in 1..Len(LodWords) : ContainsStr(formula_upper, LodWords[k])
           /\ Contains(formula, "{")
           /\ Contains(formula, "}")
        THEN "LOD"
        ELSE IF \E k \in 1..Len(table_calc_funcs) :
                  ContainsStr(formula_upper, table_calc_funcs[k])
        THEN "TABLE_CALC"
        ELSE "BASIC"
  IN  IF Len(formula) = 0 THEN "BASIC" ELSE Classified(StrUpper(formula))

\* TableauColumn of a table
Column(name, datatype) ==
  [name |-> name, caption |-> Some(name), datatype |-> datatype]

\* TableauTable as _extract_tables builds it: the caption is the name
Table(name, columns) ==
  [name |-> name, caption |-> Some(name), columns |-> columns]

\* TableauColumn of a calculated field as _extract_calculated_fields builds it
CalculatedField(name, formula) ==
  [name |-> name, caption |-> Some(name), calculation |-> Some(formula),
   calculation_type |-> classify_calculation(formula)]

\* TableauColumn with the defaults of the dataclass: no calculation
PlainField(name) ==
  [name |-> name, caption |-> None, calculation |-> None,
   calculation_type |-> "BASIC"]

TableCandidates ==
  { Table(<<"O", "r", "d", "e", "r", "s">>, <<Column(<<"S", "a", "l", "e", "s">>, "REAL"), Column(<<"O", "r", "d", "e", "r", " ", "D", "a", "t", "e">>, "DATE"),
                           Column(<<"O", "r", "d", "e", "r", "_", "D", "a", "t", "e">>, "DATE")>>),
    Table(<<"O", "r", "d", "e", "r", " ", "D", "e", "t", "a", "i", "l", "s", " ", "(", "2", "0", "2", "4", ")">>, <<>>) }

CalcFormulas ==
  { <<"S", "U", "M", "(", "[", "S", "a", "l", "e", "s", "]", ")">>,
    <<"{", "F", "I", "X", "E", "D", " ", "[", "R", "e", "g", "i", "o", "n", "]", " ", ":", " ", "S", "U", "M", "(", "[", "S", "a", "l", "e", "s", "]", ")", "}">>,
    <<"R", "A", "N", "K", "(", "S", "U", "M", "(", "[", "S", "a", "l", "e", "s", "]", ")", ")">>,
    <<"S", "P", "L", "I", "T", "(", "[", "N", "a", "m", "e", "]", ",", " ", "1", ")">>,
    <<"S", "U", "M", "(", "[", "A", "v", "g", " ", "(", "U", "S", "D", ")", "]", ")">>,
    <<>> }

CalcCandidates ==
  { CalculatedField(<<"T", "o", "t", "a", "l", " ", "S", "a", "l", "e", "s">>, <<"S", "U", "M", "(", "[", "S", "a", "l", "e", "s", "]", ")">>),
    CalculatedField(<<"R", "e", "g", "i", "o", "n", " ", "S", "a", "l", "e", "s">>, <<"{", "F", "I", "X", "E", "D", " ", "[", "R", "e", "g", "i", "o", "n", "]", " ", ":", " ", "S", "U", "M", "(", "[", "S", "a", "l", "e", "s", "]", ")", "}">>),
    CalculatedField(<<"S", "a", "l", "e", "s", " ", "R", "a", "n", "k">>, <<"R", "A", "N", "K", "(", "S", "U", "M", "(", "[", "S", "a", "l", "e", "s", "]", ")", ")">>),
    CalculatedField(<<"N", "a", "m", "e", " ", "P", "a", "r", "t">>, <<"S", "P", "L", "I", "T", "(", "[", "N", "a", "m", "e", "]", ",", " ", "1", ")">>),
    CalculatedField(<<"B", "l", "a", "n", "k">>, <<>>),
    PlainField(<<"P", "a", "r", "a", "m", "e", "t", "e", "r", " ", "1">>) }

\* TableauShelf field: {'name': ..., 'aggregation': ...}
ShelfField(name, aggregation) == [name |-> name, aggregation |-> aggregation]

WorksheetCandidates ==
  { [name |-> <<"S", "a", "l", "e", "s", " ", "b", "y", " ", "R", "e", "g", "i", "o", "n">>, title |-> None, visual_type |-> "BAR",
     is_dual_axis |-> FALSE,
     rows |-> <<<<"R", "e", "g", "i", "o", "n">>>>, columns |-> <<<<"S", "a", "l", "e", "s">>>>,
     marks |-> <<[enc_type |-> "color", fields |-> <<<<"O", "r", "d", "e", "r", " ", "D", "a", "t", "e">>>>]>>,
     shelves |-> <<[shelf_type |-> "rows",
                    fields |-> <<ShelfField(<<"R", "e", "g", "i", "o", "n">>, None)>>],
                   [shelf_type |-> "columns",
                    fields |-> <<ShelfField(<<"S", "a", "l", "e", "s">>, Some(<<"S", "U", "M">>))>>]>>],
    [name |-> <<"P", "r", "o", "f", "i", "t", " ", "T", "r", "e", "n", "d">>, title |-> Some(<<"T", "r", "e", "n", "d">>),
     visual_type |-> "LINE", is_dual_axis |-> TRUE,
     rows |-> <<<<"O", "r", "d", "e", "r", " ", "D", "a", "t", "e">>>>, columns |-> <<<<"N", "a", "m", "e", " ", "P", "a", "r", "t">>, <<"R", "e", "g", "i", "o", "n">>>>,
     marks |-> <<[enc_type |-> "tooltip", fields |-> <<<<"R", "e", "g", "i", "o", "n">>>>]>>,
     shelves |-> <<>>] }

\* TableauDashboardZone
Zone(zone_type, worksheet_name, x, y, width, height) ==
  [zone_type |-> zone_type, worksheet_name |-> worksheet_name,
   x |-> x, y |-> y, width |-> width, height |-> height]

ZoneCandidates ==
  { Zone("viz", Some(<<"S", "a", "l", "e", "s", " ", "b", "y", " ", "R", "e", "g", "i", "o", "n">>), 0, 0, 600, 400),
    Zone("viz", Some(<<"P", "r", "o", "f", "i", "t", " ", "T", "r", "e", "n", "d">>), 1100, 750, 300, 200),
    Zone("viz", Some(<<"D", "e", "l", "e", "t", "e", "d", " ", "S", "h", "e", "e", "t">>), 600, 0, 600, 400),
    Zone("text", None, 0, 0, 100, 100) }

\* name, title and size of a dashboard
DashboardCandidates ==
  { [name |-> <<"O", "v", "e", "r", "v", "i", "e", "w">>, title |-> None, width |-> 1280, height |-> 800],
    [name |-> <<"W", "a", "l", "l", " ", "D", "i", "s", "p", "l", "a", "y">>, title |-> None, width |-> 2560, height |-> 1440] }

(***************************************************************************)
(* CanonicalTransformer (transformers/canonical_transformer.py).           *)
(***************************************************************************)
VISUAL_TYPE_MAP ==
  [BAR |-> "CLUSTERED_BAR", LINE |-> "LINE_CHART", AREA |-> "AREA_CHART",
   PIE |-> "PIE_CHART", SCATTER |-> "SCATTER", TEXT_TABLE |-> "TABLE",
   CROSSTAB |-> "MATRIX", MAP |-> "MAP", TREEMAP |-> "TREEMAP",
   HEATMAP |-> "MATRIX", HISTOGRAM |-> "CLUSTERED_BAR", GANTT |-> "BAR_CHART",
   BULLET |-> "CLUSTERED_BAR", PACKED_BUBBLE |-> "SCATTER",
   DUAL_AXIS |-> "LINE_CHART", COMBINED_AXIS |-> "LINE_CHART",
   UNKNOWN |-> "TABLE"]

DATA_TYPE_MAP ==
  [STRING |-> "STRING", INTEGER |-> "INTEGER", REAL |-> "DOUBLE",
   DATE |-> "DATE", DATETIME |-> "DATETIME", BOOLEAN |-> "BOOLEAN",
   UNKNOWN |-> "STRING"]

AlnumChars == LowerLetters \cup UpperLetters \cup Digits

\* str.isalnum of one character
IsAlnum(c) == c \in AlnumChars

\* name.replace(' ', '_') followed by
\* ''.join(c for c in sanitized if c.isalnum() or c in '_-'), from character i on
RECURSIVE KeepValid(_, _)
KeepValid(name, i) ==
  LET Kept(c) == IF IsAlnum(c) \/ c \in {"_", "-"} THEN <<c>> ELSE <<>>
  IN  IF i > Len(name) THEN <<>>
      ELSE Kept(IF name[i] = " " THEN "_" ELSE name[i]) \o KeepValid(name, i + 1)

\* _sanitize_name with the underscore put before every name that does not
\* start with a letter
sanitize_name_prefix_unless_letter(name) ==
  LET Checked(sanitized) ==
        IF Len(sanitized) = 0 THEN <<"F", "i", "e", "l", "d">>
        ELSE IF sanitized[1] \notin LowerLetters \cup UpperLetters
        THEN <<"_">> \o sanitized
        ELSE sanitized
  IN  IF Len(name) = 0 THEN <<"U", "n", "n", "a", "m", "e", "d">>
      ELSE Checked(KeepValid(name, 1))

\* CanonicalTransformer._sanitize_name
sanitize_name(name) ==
  LET Checked(sanitized) ==
        IF Len(sanitized) = 0 THEN <<"F", "i", "e", "l", "d">>
        ELSE IF sanitized[1] \in Digits THEN <<"_">> \o sanitized
        ELSE sanitized
  IN  IF Len(name) = 0 THEN <<"U", "n", "n", "a", "m", "e", "d">>
      ELSE Checked(KeepValid(name, 1))

\* the display_name property: caption or name
display_name(x) ==
  IF x.caption.some /\ Len(x.caption.val) > 0 THEN x.caption.val ELSE x.name

\* title or name
TitleOrName(x) ==
  IF x.title.some /\ Len(x.title.val) > 0 THEN x.title.val ELSE x.name

\* CanonicalColumn
CanonicalColumn(name, display, data_type, source_column) ==
  [name |-> name, display_name |-> display, data_type |-> data_type,
   source_column |-> source_column]

\* CanonicalTransformer._convert_table
convert_table(tableau_table) ==
  LET Converted(columns) ==
        [name |-> sanitize_name(tableau_table.name),
         display_name |-> display_name(tableau_table),
         columns |-> IF Len(columns) = 0
                     THEN <<CanonicalColumn(<<"P", "l", "a", "c", "e", "h", "o", "l", "d", "e", "r">>, <<"P", "l", "a", "c", "e", "h", "o", "l", "d", "e", "r">>,
                                            "STRING", None)>>
                     ELSE columns,
         measures |-> <<>>,
         source_table |-> Some(tableau_table.name),
         description |-> None]
      Converted_column(col) ==
        CanonicalColumn(sanitize_name(col.name), display_name(col),
                        DATA_TYPE_MAP[col.datatype], Some(col.name))
  IN  Converted([i \in 1..Len(tableau_table.columns) |->
                   Converted_column(tableau_table.columns[i])])

\* the table names a translator is constructed with (line 173-175)
TranslatorTableNames ==
  {sanitize_name(t.name) : t \in TableCandidates} \cup {sanitize_name(<<"D", "a", "t", "a">>)}

\* CalculationTranslator(table_name).translate(formula) and
\* translator.get_aggregation_type(formula), tabulated over the table names
\* and the formulas of the workbooks
translations ==
  { [table_name |-> t, formula |-> f,
     result |-> translate(t, Some(f), FALSE),
     aggregation |-> get_aggregation_type(Some(f))] :
      t \in TranslatorTableNames, f \in CalcFormulas }

\* the entry of a table name and a formula
Translation(t, f) ==
  CHOOSE r \in translations : r.table_name = t /\ r.formula = f

\* _convert_calculated_field with a measure that drops the reason translate
\* returned
convert_calculated_field_without_reason(calc_field, datasource, unsupported_features) ==
  LET Measure(t) ==
        [measure |->
           Some([name |-> sanitize_name(calc_field.name),
                 display_name |-> display_name(calc_field),
                 expression |-> calc_field.calculation.val,
                 dax_expression |-> t.result.expr,
                 confidence |-> t.result.confidence,
                 aggregation |-> t.aggregation,
                 unsupported_reason |-> None]),
         unsupported_features |-> unsupported_features]
      Translated_for(table_name) ==
        Measure(Translation(sanitize_name(table_name), calc_field.calculation.val))
  IN  IF Falsy(calc_field.calculation)
      THEN [measure |-> None, unsupported_features |-> unsupported_features]
      ELSE Translated_for(IF Len(datasource.tables) > 0
                          THEN datasource.tables[1].name ELSE <<"D", "a", "t", "a">>)

\* CanonicalTransformer._convert_calculated_field: the measure (or None) and
\* the unsupported_features of the transformer after the call
convert_calculated_field(calc_field, datasource, unsupported_features) ==
  LET Measure(t) ==
        [measure |->
           Some([name |-> sanitize_name(calc_field.name),
                 display_name |-> display_name(calc_field),
                 expression |-> calc_field.calculation.val,
                 dax_expression |-> t.result.expr,
                 confidence |-> t.result.confidence,
                 aggregation |-> t.aggregation,
                 unsupported_reason |-> t.result.reason]),
         unsupported_features |->
           IF calc_field.calculation_type = "LOD"
           THEN [unsupported_features EXCEPT
                   !.lod_expressions = Append(@, calc_field.name)]
           ELSE IF calc_field.calculation_type = "TABLE_CALC"
           THEN [unsupported_features EXCEPT
                   !.table_calculations = Append(@, calc_field.name)]
           ELSE unsupported_features]
      Translated_for(table_name) ==
        Measure(Translation(sanitize_name(table_name), calc_field.calculation.val))
  IN  IF Falsy(calc_field.calculation)
      THEN [measure |-> None, unsupported_features |-> unsupported_features]
      ELSE Translated_for(IF Len(datasource.tables) > 0
                          THEN datasource.tables[1].name ELSE <<"D", "a", "t", "a">>)

\* the loop over datasource.calculated_fields of _process_datasource, from
\* field k on: the measures appended to tables[0] and the bookkeeping
RECURSIVE CalculatedFieldsLoop(_, _, _, _)
CalculatedFieldsLoop(datasource, k, tables, unsupported_features) ==
  LET Appended(c) ==
        CalculatedFieldsLoop(
          datasource, k + 1,
          IF c.measure.some /\ Len(tables) > 0
          THEN [tables EXCEPT ![1].measures = Append(@, c.measure.val)]
          ELSE tables,
          c.unsupported_features)
  IN  IF k > Len(datasource.calculated_fields)
      THEN [tables |-> tables, unsupported_features |-> unsupported_features]
      ELSE Appended(convert_calculated_field(datasource.calculated_fields[k],
                                             datasource, unsupported_features))

\* CanonicalTransformer._process_datasource
process_datasource(datasource, unsupported_features) ==
  CalculatedFieldsLoop(
    datasource, 1,
    [i \in 1..Len(datasource.tables) |-> convert_table(datasource.tables[i])],
    unsupported_features)

\* the fields a set of worksheets refers to (rows, columns, marks)
FieldsSeen(worksheets) ==
  UNION {
    {worksheets[i].rows[j] : j \in 1..Len(worksheets[i].rows)}
      \cup {worksheets[i].columns[j] : j \in 1..Len(worksheets[i].columns)}
      \cup UNION {{worksheets[i].marks[m].fields[j] :
                     j \in 1..Len(worksheets[i].marks[m].fields)} :
                  m \in 1..Len(worksheets[i].marks)}
    : i \in 1..Len(worksheets)}

\* the orders in which a Python set of strings may be iterated
IterationOrders(S) ==
  {o \in [1..Cardinality(S) -> S] : \A i, j \in 1..Cardinality(S) : i # j => o[i] # o[j]}

\* CanonicalTransformer._create_placeholder_table; order: the order in which
\* the set fields_seen is iterated
create_placeholder_table(workbook, order) ==
  LET Placeholder(columns) ==
        [name |-> <<"D", "a", "t", "a">>,
         display_name |-> <<"D", "a", "t", "a">>,
         columns |-> IF Len(columns) = 0
                     THEN <<CanonicalColumn(<<"V", "a", "l", "u", "e">>, <<"V", "a", "l", "u", "e">>, "STRING", None)>>
                     ELSE columns,
         measures |-> <<>>,
         source_table |-> None,
         description |-> Some("Placeholder table - no datasource metadata available")]
  IN  Placeholder([i \in 1..Len(order) |->
                     CanonicalColumn(sanitize_name(order[i]), order[i], "STRING", None)])

\* the loop over workbook.datasources of _create_dataset, from datasource k on
RECURSIVE DatasourcesLoop(_, _, _, _)
DatasourcesLoop(workbook, k, tables, unsupported_features) ==
  LET Extended(p) ==
        DatasourcesLoop(workbook, k + 1, tables \o p.tables, p.unsupported_features)
  IN  IF k > Len(workbook.datasources)
      THEN [tables |-> tables, unsupported_features |-> unsupported_features]
      ELSE Extended(process_datasource(workbook.datasources[k], unsupported_features))

\* CanonicalTransformer._create_dataset
create_dataset(workbook, order, unsupported_features) ==
  LET Dataset(d) ==
        [dataset |->
           [name |-> workbook.name \o <<"_", "M", "o", "d", "e", "l">>,
            tables |-> IF Len(d.tables) = 0
                       THEN <<create_placeholder_table(workbook, order)>>
                       ELSE d.tables],
         unsupported_features |-> d.unsupported_features]
  IN  Dataset(DatasourcesLoop(workbook, 1, <<>>, unsupported_features))

\* VisualEncoding
VisualEncoding(field_name, table_name, aggregation, is_measure) ==
  [field_name |-> field_name, table_name |-> Some(table_name),
   aggregation |-> aggregation, is_measure |-> is_measure]

numeric_indicators ==
  <<<<"s", "u", "m">>, <<"a", "v", "g">>, <<"c", "o", "u", "n", "t">>, <<"s", "a", "l", "e", "s">>, <<"p", "r", "o", "f", "i", "t">>, <<"q", "u", "a", "n", "t", "i", "t", "y">>,
    <<"r", "e", "v", "e", "n", "u", "e">>, <<"a", "m", "o", "u", "n", "t">>, <<"t", "o", "t", "a", "l">>, <<"p", "r", "i", "c", "e">>>>

\* CanonicalTransformer._is_measure_field
is_measure_field(field_name, worksheet, dataset) ==
  LET Indicated(lowered) ==
        \E k \in 1..Len(numeric_indicators) : ContainsStr(lowered, numeric_indicators[k])
  IN  \/ \E s \in 1..Len(worksheet.shelves) :
           \E f \in 1..Len(worksheet.shelves[s].fields) :
             /\ worksheet.shelves[s].fields[f].name = field_name
             /\ ~Falsy(worksheet.shelves[s].fields[f].aggregation)
      \/ \E t \in 1..Len(dataset.tables) :
           \E m \in 1..Len(dataset.tables[t].measures) :
             dataset.tables[t].measures[m].name = sanitize_name(field_name)
      \/ Indicated(StrLower(field_name))

\* the fields of the mark encodings of one type, in the order of worksheet.marks
RECURSIVE MarkFields(_, _, _)
MarkFields(marks, k, enc_type) ==
  IF k > Len(marks) THEN <<>>
  ELSE (IF marks[k].enc_type = enc_type THEN marks[k].fields ELSE <<>>)
         \o MarkFields(marks, k + 1, enc_type)

\* the elements of s at the positions I, in the order of s
RECURSIVE Pick(_, _)
Pick(s, I) ==
  IF I = {} THEN <<>>
  ELSE <<s[SetMin(I)]>> \o Pick(s, I \ {SetMin(I)})

\* CanonicalTransformer._set_visual_encodings: the four encoding channels
set_visual_encodings(visual, worksheet, dataset) ==
  LET Encoded(table_name, column_encodings, tooltips, colors) ==
        [visual EXCEPT
           !.category = @ \o [i \in 1..Len(worksheet.rows) |->
                                VisualEncoding(sanitize_name(worksheet.rows[i]),
                                               table_name, "none", FALSE)],
           !.values = @ \o Pick(column_encodings,
                                 {i \in 1..Len(column_encodings) :
                                    column_encodings[i].is_measure}),
           !.series = @ \o Pick(column_encodings,
                                 {i \in 1..Len(column_encodings) :
                                    ~column_encodings[i].is_measure})
                        \o [i \in 1..Len(colors) |->
                              VisualEncoding(sanitize_name(colors[i]),
                                             table_name, "none", FALSE)],
           !.tooltip = @ \o [i \in 1..Len(tooltips) |->
                               VisualEncoding(sanitize_name(tooltips[i]),
                                              table_name, "none", FALSE)]]
      Column_encoding(field, table_name, is_measure) ==
        VisualEncoding(sanitize_name(field), table_name,
                       IF is_measure THEN "sum" ELSE "none", is_measure)
      In_table(table_name) ==
        Encoded(table_name,
                [i \in 1..Len(worksheet.columns) |->
                   Column_encoding(worksheet.columns[i], table_name,
                                   is_measure_field(worksheet.columns[i],
                                                    worksheet, dataset))],
                MarkFields(worksheet.marks, 1, "tooltip"),
                MarkFields(worksheet.marks, 1, "color"))
  IN  In_table(IF Len(dataset.tables) > 0 THEN dataset.tables[1].name
               ELSE <<"D", "a", "t", "a">>)

\* CanonicalTransformer._generate_page_id: the first 20 hex digits of the MD5
\* digest of the name, kept as a term over the name
generate_page_id(name) == [md5 |-> name, digits |-> 20]

\* CanonicalTransformer._generate_visual_id: the first 32 hex digits of the
\* name-based UUID (version 5), kept as a term over the name
generate_visual_id(name) == [uuid5 |-> name, digits |-> 32]

\* CanonicalVisual without encodings
CanonicalVisual(worksheet, x, y, width, height, confidence, unsupported) ==
  [id |-> generate_visual_id(worksheet.name),
   name |-> worksheet.name,
   visual_type |-> VISUAL_TYPE_MAP[worksheet.visual_type],
   x |-> x, y |-> y, width |-> width, height |-> height,
   title |-> Some(TitleOrName(worksheet)),
   category |-> <<>>, values |-> <<>>, series |-> <<>>, tooltip |-> <<>>,
   source_worksheet |-> Some(worksheet.name),
   confidence |-> confidence,
   unsupported_features |-> unsupported]

pbi_width == 1280

pbi_height == 720

tb_width == 1200

tb_height == 800

\* int(v * (num / den)): the quotient truncated toward zero
Scaled(v, num, den) ==
  IF v >= 0 THEN (v * num) \div den ELSE -((-v * num) \div den)

Max(a, b) == IF a >= b THEN a ELSE b

Min(a, b) == IF a <= b THEN a ELSE b

\* _scale_zone_position without the clamp of x and y to the canvas
scale_zone_position_without_clamp(zone) ==
  [x |-> Scaled(zone.x, pbi_width, tb_width),
   y |-> Scaled(zone.y, pbi_height, tb_height),
   width |-> Max(Scaled(zone.width, pbi_width, tb_width), 100),
   height |-> Max(Scaled(zone.height, pbi_height, tb_height), 100)]

\* CanonicalTransformer._scale_zone_position
scale_zone_position(zone) ==
  LET Clamped(width, height) ==
        [x |-> Min(Scaled(zone.x, pbi_width, tb_width), pbi_width - width),
         y |-> Min(Scaled(zone.y, pbi_height, tb_height), pbi_height - height),
         width |-> width,
         height |-> height]
  IN  Clamped(Max(Scaled(zone.width, pbi_width, tb_width), 100),
              Max(Scaled(zone.height, pbi_height, tb_height), 100))

\* CanonicalTransformer._convert_worksheet_to_visual: the visual and the
\* unsupported_features of the transformer after the call
convert_worksheet_to_visual(worksheet, zone, dataset, unsupported_features) ==
  LET Placed(box) ==
        CanonicalVisual(worksheet, box.x, box.y, box.width, box.height,
                        IF worksheet.is_dual_axis THEN "MEDIUM" ELSE "HIGH",
                        IF worksheet.is_dual_axis
                        THEN <<"Dual-axis chart - converted to single axis">>
                        ELSE <<>>)
  IN  [visual |-> set_visual_encodings(Placed(scale_zone_position(zone)),
                                       worksheet, dataset),
       unsupported_features |->
         IF worksheet.is_dual_axis
         THEN [unsupported_features EXCEPT
                 !.dual_axis_charts = Append(@, worksheet.name)]
         ELSE unsupported_features]

\* _create_visual_from_worksheet that looks at no dual-axis flag
create_visual_from_worksheet_ignoring_axes(worksheet, dataset, index) ==
  set_visual_encodings(
    CanonicalVisual(worksheet, 50 + (index % 2) * 600,
                    50 + (index \div 2) * 400, 550, 350, "HIGH", <<>>),
    worksheet, dataset)

cols_per_row == 2

\* CanonicalTransformer._create_visual_from_worksheet; index counts from 0
create_visual_from_worksheet(worksheet, dataset, index) ==
  set_visual_encodings(
    CanonicalVisual(worksheet, 50 + (index % cols_per_row) * 600,
                    50 + (index \div cols_per_row) * 400, 550, 350,
                    IF worksheet.is_dual_axis THEN "MEDIUM" ELSE "HIGH",
                    IF worksheet.is_dual_axis THEN <<"Dual-axis chart">> ELSE <<>>),
    worksheet, dataset)

\* TableauWorkbook.get_worksheet_by_name
get_worksheet_by_name(workbook, name) ==
  LET Found(hits) ==
        IF hits = {} THEN None ELSE Some(workbook.worksheets[SetMin(hits)])
  IN  Found({i \in 1..Len(workbook.worksheets) : workbook.worksheets[i].name = name})

\* the loop over dashboard.zones of _convert_dashboard, from zone k on
RECURSIVE ZonesLoop(_, _, _, _, _, _)
ZonesLoop(dashboard, workbook, dataset, k, visuals, unsupported_features) ==
  LET Added(v) ==
        ZonesLoop(dashboard, workbook, dataset, k + 1,
                  Append(visuals, v.visual), v.unsupported_features)
      Resolved(zone, worksheet) ==
        IF worksheet.some
        THEN Added(convert_worksheet_to_visual(worksheet.val, zone, dataset,
                                               unsupported_features))
        ELSE ZonesLoop(dashboard, workbook, dataset, k + 1,
                       visuals, unsupported_features)
      Visited(zone) ==
        Resolved(zone,
                 IF zone.zone_type = "viz" /\ ~Falsy(zone.worksheet_name)
                 THEN get_worksheet_by_name(workbook, zone.worksheet_name.val)
                 ELSE None)
  IN  IF k > Len(dashboard.zones)
      THEN [visuals |-> visuals, unsupported_features |-> unsupported_features]
      ELSE Visited(dashboard.zones[k])

\* _convert_dashboard without the visuals made of all worksheets
convert_dashboard_without_fallback(dashboard, workbook, dataset, unsupported_features) ==
  LET Page(z) ==
        [page |->
           [id |-> generate_page_id(dashboard.name),
            name |-> sanitize_name(dashboard.name),
            display_name |-> TitleOrName(dashboard),
            width |-> Min(dashboard.width, 1920),
            height |-> Min(dashboard.height, 1080),
            visuals |-> z.visuals,
            source_dashboard |-> Some(dashboard.name)],
         unsupported_features |-> z.unsupported_features]
  IN  Page(ZonesLoop(dashboard, workbook, dataset, 1, <<>>, unsupported_features))

\* CanonicalTransformer._convert_dashboard: the page and the
\* unsupported_features of the transformer after the call
convert_dashboard(dashboard, workbook, dataset, unsupported_features) ==
  LET Page(z) ==
        [page |->
           [id |-> generate_page_id(dashboard.name),
            name |-> sanitize_name(dashboard.name),
            display_name |-> TitleOrName(dashboard),
            width |-> Min(dashboard.width, 1920),
            height |-> Min(dashboard.height, 1080),
            visuals |->
              IF Len(z.visuals) = 0
              THEN [i \in 1..Len(workbook.worksheets) |->
                      create_visual_from_worksheet(workbook.worksheets[i], dataset, i - 1)]
              ELSE z.visuals,
            source_dashboard |-> Some(dashboard.name)],
         unsupported_features |-> z.unsupported_features]
  IN  Page(ZonesLoop(dashboard, workbook, dataset, 1, <<>>, unsupported_features))

\* CanonicalTransformer._create_page_from_worksheet
create_page_from_worksheet(worksheet, dataset) ==
  [id |-> generate_page_id(worksheet.name),
   name |-> sanitize_name(worksheet.name),
   display_name |-> TitleOrName(worksheet),
   width |-> 1280,
   height |-> 720,
   visuals |-> <<create_visual_from_worksheet(worksheet, dataset, 0)>>,
   source_dashboard |-> None]

\* the loop over workbook.dashboards of _create_pages, from dashboard k on
RECURSIVE DashboardsLoop(_, _, _, _, _)
DashboardsLoop(workbook, dataset, k, pages, unsupported_features) ==
  LET Added(p) ==
        DashboardsLoop(workbook, dataset, k + 1, Append(pages, p.page),
                       p.unsupported_features)
  IN  IF k > Len(workbook.dashboards)
      THEN [pages |-> pages, unsupported_features |-> unsupported_features]
      ELSE Added(convert_dashboard(workbook.dashboards[k], workbook, dataset,
                                   unsupported_features))

\* _create_pages without the default page
create_pages_without_default(workbook, dataset, unsupported_features) ==
  IF Len(workbook.dashboards) > 0
  THEN DashboardsLoop(workbook, dataset, 1, <<>>, unsupported_features)
  ELSE [pages |-> [i \in 1..Len(workbook.worksheets) |->
                     create_page_from_worksheet(workbook.worksheets[i], dataset)],
        unsupported_features |-> unsupported_features]

\* _create_pages that makes the pages of the worksheets whether or not the
\* workbook has dashboards
create_pages_of_worksheets_too(workbook, dataset, unsupported_features) ==
  LET Defaulted(made) ==
        [pages |-> IF Len(made.pages) = 0
                   THEN <<[id |-> generate_page_id(<<"P", "a", "g", "e", "1">>),
                           name |-> <<"P", "a", "g", "e", "1">>,
                           display_name |-> <<"P", "a", "g", "e", " ", "1">>,
                           width |-> 1280,
                           height |-> 720,
                           visuals |-> <<>>,
                           source_dashboard |-> None]>>
                   ELSE made.pages,
         unsupported_features |-> made.unsupported_features]
      Extended(made) ==
        [pages |-> made.pages \o [i \in 1..Len(workbook.worksheets) |->
                                    create_page_from_worksheet(workbook.worksheets[i],
                                                               dataset)],
         unsupported_features |-> made.unsupported_features]
  IN  Defaulted(Extended(DashboardsLoop(workbook, dataset, 1, <<>>, unsupported_features)))

\* CanonicalTransformer._create_pages: the pages and the unsupported_features
\* of the transformer after the call
create_pages(workbook, dataset, unsupported_features) ==
  LET Defaulted(made) ==
        [pages |-> IF Len(made.pages) = 0
                   THEN <<[id |-> generate_page_id(<<"P", "a", "g", "e", "1">>),
                           name |-> <<"P", "a", "g", "e", "1">>,
                           display_name |-> <<"P", "a", "g", "e", " ", "1">>,
                           width |-> 1280,
                           height |-> 720,
                           visuals |-> <<>>,
                           source_dashboard |-> None]>>
                   ELSE made.pages,
         unsupported_features |-> made.unsupported_features]
  IN  Defaulted(IF Len(workbook.dashboards) > 0
                THEN DashboardsLoop(workbook, dataset, 1, <<>>, unsupported_features)
                ELSE [pages |-> [i \in 1..Len(workbook.worksheets) |->
                                   create_page_from_worksheet(workbook.worksheets[i],
                                                              dataset)],
                      unsupported_features |-> unsupported_features])

\* CanonicalTransformer.__init__
NewTransformer ==
  [warnings |-> <<>>,
   unsupported_features |->
     [lod_expressions |-> <<>>, table_calculations |-> <<>>,
      dual_axis_charts |-> <<>>, other |-> <<>>]]

\* CanonicalTransformer.transform: the report and the transformer after the
\* call; order: the order in which _create_placeholder_table iterates its set
transform(self, workbook, order) ==
  LET Report(d, p) ==
        [report |->
           [name |-> workbook.name,
            dataset |-> d.dataset,
            pages |-> p.pages,
            source_file |-> Some(workbook.name),
            migration_warnings |-> self.warnings,
            unsupported_features |-> p.unsupported_features],
         self |-> [self EXCEPT !.unsupported_features = p.unsupported_features]]
      Pages(d) == Report(d, create_pages(workbook, d.dataset, d.unsupported_features))
  IN  Pages(create_dataset(workbook, order, self.unsupported_features))

(***************************************************************************)
(* MigrationPipeline (pipeline.py).                                        *)
(***************************************************************************)
\* MigrationReport: the fields _process_file decides
MigrationReport(source_file, success, error_message) ==
  [source_file |-> source_file, success |-> success, error_message |-> error_message]

\* MigrationPipeline._process_file: the report of the file, and whether the
\* output directory exists after the call (exists: whether it did before).
\* PBIPProjectGenerator.generate creates the directory before anything else.
process_file(twbx_file, exists) ==
  [migration_report |->
     IF twbx_file.raises = "none"
     THEN MigrationReport(twbx_file.path, TRUE, None)
     ELSE MigrationReport(twbx_file.path, FALSE, Some(twbx_file.raises)),
   exists |-> exists \/ twbx_file.raises \notin {"extract", "transform"}]

\* the loop of run over twbx_files, from file k on
RECURSIVE FilesLoop(_, _, _, _)
FilesLoop(files, k, reports, exists) ==
  LET Appended(p) ==
        FilesLoop(files, k + 1, Append(reports, p.migration_report), p.exists)
  IN  IF k > Len(files) THEN [reports |-> reports, exists |-> exists]
      ELSE Appended(process_file(files[k], exists))

\* MigrationPipeline.run: self.migration_reports and the output directory after
\* the call, and what the call returned.  _generate_summary_report opens a file
\* in the output directory and raises when the directory does not exist.
run(self, files, exists) ==
  LET Summarised(done) ==
        [self |-> [self EXCEPT !.migration_reports = done.reports],
         exists |-> done.exists,
         returned |-> IF done.exists
                      THEN [raised |-> FALSE, reports |-> done.reports]
                      ELSE [raised |-> TRUE, reports |-> <<>>]]
  IN  IF Len(files) = 0
      THEN [self |-> self, exists |-> exists,
            returned |-> [raised |-> FALSE, reports |-> <<>>]]
      ELSE Summarised(FilesLoop(files, 1, self.migration_reports, exists))

(***************************************************************************)
(* Bounds and input sets of the translator.                                *)
(***************************************************************************)
\* most spaces written between a function name and its '(' , and after '{'
MaxSpaces == 1

Spaces(k) == [i \in 1..k |-> " "]

\* a name with its first letter in upper case and the rest in lower case
Capitalized(n) == <<Upper1(n[1])>> \o StrLower(Tail(n))

Casings(n) == {n, StrLower(n), Capitalized(n)}

AggregationNames == {AGGREGATION_MAP[k].name : k \in 1..Len(AGGREGATION_MAP)}

FunctionNames == {FUNCTION_MAP[k].name : k \in 1..Len(FUNCTION_MAP)}

UnsupportedNames == {UNSUPPORTED_FUNCTIONS[k].name : k \in 1..Len(UNSUPPORTED_FUNCTIONS)}

AllNames == AggregationNames \cup FunctionNames \cup UnsupportedNames

\* field names written between brackets
FieldNames == { <<"S", "a", "l", "e", "s">>,
                <<"S", "i", "z", "e", " ", "(", "c", "m", ")">> }

\* owning tables of a translator
TableNames == { <<"O", "r", "d", "e", "r", "s">>, <<"D", "a", "t", "a">> }

Bracketed(f) == <<"[">> \o f \o <<"]">>

\* text written before and after a call
Wrappers ==
  { << <<>>, <<>> >>,
    << <<"x">>, <<>> >>,
    << <<"S", "P", "L", "I", "T", "(", "[", "N", "a", "m", "e", "]", ",", " ", "1", ")", " ", "+", " ">>, <<>> >>,
    << <<"C", "A", "S", "E", " ">>, <<" ", "W", "H", "E", "N", " ", "1", " ", "T", "H", "E", "N", " ", "2", " ", "E", "N", "D">> >> }

\* pre NAME( [field] ) post
CallFormulas ==
  { w[1] \o n \o Spaces(k) \o <<"(">> \o Bracketed(f) \o <<")">> \o w[2] :
      n \in UNION {Casings(m) : m \in AllNames}, k \in 0..MaxSpaces,
      f \in FieldNames, w \in Wrappers }

LodBody ==
  <<" ", "[", "R", "e", "g", "i", "o", "n", "]", " ", ":", " ",
    "S", "U", "M", "(", "[", "S", "a", "l", "e", "s", "]", ")">>

\* pre { KEYWORD [Region] : SUM([Sales]) close
LodFormulas ==
  { pre \o <<"{">> \o Spaces(k) \o kw \o LodBody \o close :
      pre \in { <<>>, <<"1", " ", "+", " ">> }, k \in 0..MaxSpaces,
      kw \in UNION {Casings(LodKeywords[j]) : j \in 1..Len(LodKeywords)},
      close \in { <<"}">>, <<>>, <<"}", " ", "+", " ", "R", "A", "N", "K", "(", ")">> } }

OtherFormulas ==
  { <<>>, <<" ">>, <<"[", "S", "a", "l", "e", "s", "]">>,
    <<"[", "S", "a", "l", "e", "s", "]", " ", "+", " ", "1">>,
    <<"{", " ", "[", "S", "a", "l", "e", "s", "]", " ", "}">>,
    <<"I", "F", "N", "U", "L", "L", "(", "[", "S", "a", "l", "e", "s", "]", ",", " ", "0", ")">>,
    <<"S", "U", "M", "(", "[", "S", "a", "l", "e", "s", "]">> }

Formulas == CallFormulas \cup LodFormulas \cup OtherFormulas

FormulaInputs == {None} \cup {Some(f) : f \in Formulas}

(***************************************************************************)
(* Workbooks handed to the transformer.                                    *)
(***************************************************************************)
\* most elements (datasources, tables, calculated fields, worksheets,
\* dashboards, zones) a workbook holds
MaxItems == 4

Tuples(S, k) == [1..k -> S]

\* the TableauDatasource objects of n elements: the datasource, its tables and
\* its calculated fields
DatasourcesOf(n) ==
  UNION { { [name |-> <<"S", "u", "p", "e", "r", "s", "t", "o", "r", "e">>, caption |-> None,
             tables |-> t, calculated_fields |-> c] :
              t \in Tuples(TableCandidates, k), c \in Tuples(CalcCandidates, n - 1 - k) } :
          k \in 0..(n - 1) }

\* the lists of datasources of n elements in all
RECURSIVE DatasourceLists(_)
DatasourceLists(n) ==
  IF n = 0 THEN {<<>>}
  ELSE UNION { { <<d>> \o rest : d \in DatasourcesOf(k), rest \in DatasourceLists(n - k) } :
               k \in 1..n }

\* the TableauDashboard objects of n elements: the dashboard and its zones
DashboardsOf(n) ==
  { [name |-> d.name, title |-> d.title, width |-> d.width,
     height |-> d.height, zones |-> z] :
      d \in DashboardCandidates, z \in Tuples(ZoneCandidates, n - 1) }

\* the lists of dashboards of n elements in all
RECURSIVE DashboardLists(_)
DashboardLists(n) ==
  IF n = 0 THEN {<<>>}
  ELSE UNION { { <<d>> \o rest : d \in DashboardsOf(k), rest \in DashboardLists(n - k) } :
               k \in 1..n }

\* the TableauWorkbook objects of at most MaxItems elements
Workbooks ==
  UNION { { [name |-> <<"S", "u", "p", "e", "r", "s", "t", "o", "r", "e", " ", "2", "0", "2", "4">>, datasources |-> ds,
             worksheets |-> ws, dashboards |-> db] :
              ds \in DatasourceLists(n[1]),
              ws \in Tuples(WorksheetCandidates, n[2]),
              db \in DashboardLists(n[3]) } :
          n \in {m \in (0..MaxItems) \X (0..MaxItems) \X (0..MaxItems) :
                   m[1] + m[2] + m[3] <= MaxItems} }

\* the orders in which _create_placeholder_table may iterate fields_seen, when
\* transform gets to create the placeholder table
PlaceholderOrders(workbook) ==
  IF \A i \in 1..Len(workbook.datasources) : Len(workbook.datasources[i].tables) = 0
  THEN IterationOrders(FieldsSeen(workbook.worksheets))
  ELSE {<<>>}

\* distance between the zone coordinates of the model
CoordStep == 400

\* the zone coordinates reach from -MaxSteps * CoordStep to MaxSteps * CoordStep
MaxSteps == 4

Coordinates ==
  {k * CoordStep : k \in (-MaxSteps)..MaxSteps} \cup {1100, 750, 300, 200}

\* longest name handed to _sanitize_name
MaxNameLen == 3

\* the characters of the names: a letter of each case, a digit, a space, the
\* two characters kept besides letters and digits, and one that is removed
NameChars == {"a", "B", "1", " ", "_", "-", "!"}

\* the names handed to _sanitize_name
Names ==
  UNION {Tuples(NameChars, n) : n \in 0..MaxNameLen}
    \cup { <<"1", "2", "3", "a", "b", "c">>, <<"a", " ", "b", "!", "c">> }

\* what a formula writes before the bracket of a field reference: nothing, a
\* bare table name, or a quoted table name as _qualify_field_references writes it
Qualifiers ==
  { <<>>, <<"O", "r", "d", "e", "r", "s">>, <<"'", "O", "r", "d", "e", "r", "s", "'">>,
    <<"D", "a", "t", "a">>, <<"'", "D", "a", "t", "a", "'">>,
    <<"'", "O", "r", "d", "e", "r", " ", "D", "e", "t", "a", "i", "l", "s", "'">> }

\* text written before and after a field reference
ReferenceWrappers ==
  { << <<>>, <<>> >>,
    << <<"S", "U", "M", "(">>, <<")">> >>,
    << <<"[", "R", "e", "g", "i", "o", "n", "]", " ", "+", " ">>, <<>> >>,
    << <<"1", " ", "+", " ">>, <<" ", "*", " ", "2">> >> }

\* pre qualifier[field] post
ReferenceFormulas ==
  { w[1] \o q \o Bracketed(f) \o w[2] :
      q \in Qualifiers, f \in FieldNames, w \in ReferenceWrappers }

\* most files _find_twbx_files finds
MaxFiles == 3

\* what may happen to a file in _process_file: every call returns ("none"), or
\* the call named raises an exception
Outcomes == {"none", "extract", "transform", "generate", "cleanup"}

\* the lists _find_twbx_files returns: paths, each with what happens to the file
FileLists ==
  UNION { { [i \in 1..n |-> [path |-> i, raises |-> o[i]]] : o \in Tuples(Outcomes, n) } :
          n \in 0..MaxFiles }

\* most worksheets of a workbook whose layout is looked at
MaxSheets == 5

\* zones for the worksheet 'Sales by Region', with coordinates that are not
\* negative and sizes that are positive
LayoutZones ==
  { Zone("viz", Some(<<"S", "a", "l", "e", "s", " ", "b", "y", " ", "R", "e", "g", "i", "o", "n">>), x, y, w, h) :
      x \in {0, 600}, y \in {0, 400}, w \in {600, 1200, 2400}, h \in {400, 800} }

\* dashboards of the default size and of a smaller size read from the file,
\* without zones or with one zone
LayoutDashboards ==
  { [name |-> <<"O", "v", "e", "r", "v", "i", "e", "w">>, title |-> None,
     width |-> size[1], height |-> size[2], zones |-> z] :
      size \in {<<1280, 800>>, <<1000, 600>>},
      z \in {<<>>} \cup {<<zone>> : zone \in LayoutZones} }

\* workbooks with one table, up to MaxSheets worksheets 'Sales by Region' and
\* at most one dashboard
LayoutWorkbooks ==
  { [name |-> <<"S", "u", "p", "e", "r", "s", "t", "o", "r", "e", " ", "2", "0", "2", "4">>,
     datasources |-> <<[name |-> <<"S", "u", "p", "e", "r", "s", "t", "o", "r", "e">>, caption |-> None,
                        tables |-> <<Table(<<"O", "r", "d", "e", "r", "s">>, <<Column(<<"S", "a", "l", "e", "s">>, "REAL")>>)>>,
                        calculated_fields |-> <<>>]>>,
     worksheets |-> [i \in 1..n |->
                       CHOOSE w \in WorksheetCandidates :
                         w.name = <<"S", "a", "l", "e", "s", " ", "b", "y", " ", "R", "e", "g", "i", "o", "n">>],
     dashboards |-> db] :
      n \in 0..MaxSheets, db \in {<<>>} \cup {<<d>> : d \in LayoutDashboards} }

\* most tables, and most calculated fields, of the datasource of a workbook
\* whose measures are looked at
MaxFields == 2

\* the calculated fields of the workbooks, and one over a field whose name
\* holds a parenthesis
MeasureCandidates ==
  CalcCandidates
    \cup { CalculatedField(<<"A", "v", "e", "r", "a", "g", "e", " ", "P", "r", "i", "c", "e">>,
                           <<"S", "U", "M", "(", "[", "A", "v", "g", " ", "(", "U", "S", "D", ")", "]", ")">>) }

\* workbooks of one datasource with up to MaxFields tables and up to MaxFields
\* calculated fields
MeasureWorkbooks ==
  UNION { { [name |-> <<"S", "u", "p", "e", "r", "s", "t", "o", "r", "e", " ", "2", "0", "2", "4">>,
             datasources |-> <<[name |-> <<"S", "u", "p", "e", "r", "s", "t", "o", "r", "e">>, caption |-> None,
                                tables |-> t, calculated_fields |-> c]>>,
             worksheets |-> <<>>, dashboards |-> <<>>] :
              t \in Tuples(TableCandidates, n[1]), c \in Tuples(MeasureCandidates, n[2]) } :
          n \in (0..MaxFields) \X (0..MaxFields) }

(***************************************************************************)
(* State.                                                                  *)
(***************************************************************************)
VARIABLES
  translator,       \* the table_name of the CalculationTranslator
  calculation,  \* the formula handed to the translator
  pc,               \* "new", then the operations that have run
  translated,           \* what translate returned
  aggregation_type,      \* what get_aggregation_type returned
  tableau_workbook,         \* the TableauWorkbook handed to transform
  transformer,      \* the CanonicalTransformer: warnings, unsupported_features
  report,           \* the CanonicalReport transform returned
  dashboard_zone,             \* the TableauDashboardZone handed to _scale_zone_position
  scaled,           \* what _scale_zone_position returned
  raw_name,         \* the name handed to _sanitize_name
  safe_name,        \* what _sanitize_name returned
  safe_again,       \* what _sanitize_name returned for safe_name
  qualified_formula,        \* what _qualify_field_references returned
  requalified_formula,      \* what _qualify_field_references returned for qualified_formula
  later_workbook,   \* the TableauWorkbook of a second call of transform
  later_report,     \* the CanonicalReport the second call returned
  twbx_files,       \* the files _find_twbx_files finds, each with the stage that raises
  output_dir,       \* whether the directory config.output_path exists
  migration_reports,  \* MigrationPipeline.migration_reports
  returned,         \* what MigrationPipeline.run returned, or that it raised
  temp_dir          \* the temporary directory of the extractor at work

vars == <<translator, calculation, pc, translated, aggregation_type,
          tableau_workbook, transformer, report, dashboard_zone, scaled,
          raw_name, safe_name, safe_again, qualified_formula, requalified_formula,
          later_workbook, later_report,
          twbx_files, output_dir, migration_reports, returned, temp_dir>>

translator_vars == <<translator, calculation, translated, aggregation_type>>

transformer_vars == <<tableau_workbook, transformer, report>>

zone_vars == <<dashboard_zone, scaled>>

sanitizer_vars == <<raw_name, safe_name, safe_again>>

qualifier_vars == <<qualified_formula, requalified_formula>>

rerun_vars == <<later_workbook, later_report>>

pipeline_vars == <<twbx_files, output_dir, migration_reports, returned, temp_dir>>

NoResult ==
  [expr |-> None, confidence |-> "none", reason |-> None, stages |-> NoStages,
   rewritten |-> FALSE, raised |-> FALSE]

EmptyWorkbook ==
  [name |-> <<>>, datasources |-> <<>>, worksheets |-> <<>>, dashboards |-> <<>>]

\* no translator at work
TranslatorIdle ==
  /\ translator = <<"D", "a", "t", "a">>
  /\ calculation = None
  /\ translated = NoResult
  /\ aggregation_type = "unset"

\* no transformer at work
TransformerIdle ==
  /\ tableau_workbook = EmptyWorkbook
  /\ transformer = NewTransformer
  /\ report = None

\* no dashboard_zone to scale
ZoneIdle ==
  /\ dashboard_zone = Zone("blank", None, 0, 0, 100, 100)
  /\ scaled = None

\* no name to sanitize
SanitizerIdle ==
  /\ raw_name = <<>>
  /\ safe_name = None
  /\ safe_again = None

\* no formula was qualified_formula
QualifierIdle ==
  /\ qualified_formula = None
  /\ requalified_formula = None

\* no second call of transform
RerunIdle ==
  /\ later_workbook = EmptyWorkbook
  /\ later_report = None

\* no pipeline at work
PipelineIdle ==
  /\ twbx_files = <<>>
  /\ output_dir = FALSE
  /\ migration_reports = <<>>
  /\ returned = None
  /\ temp_dir = "none"

\* CalculationTranslator(translator=...) and the formula it is to translate
InitTranslate ==
  /\ translator \in TableNames
  /\ calculation \in FormulaInputs
  /\ pc = "new"
  /\ translated = NoResult
  /\ aggregation_type = "unset"
  /\ TransformerIdle
  /\ ZoneIdle
  /\ SanitizerIdle
  /\ QualifierIdle
  /\ RerunIdle
  /\ PipelineIdle

\* translator.translate(formula) with a rewrite stage that returns
Translate ==
  /\ pc = "new"
  /\ translated' = translate(translator, calculation, FALSE)
  /\ pc' = "translated"
  /\ UNCHANGED <<translator, calculation, aggregation_type>>
  /\ UNCHANGED <<transformer_vars, zone_vars>>
  /\ UNCHANGED <<sanitizer_vars, qualifier_vars, rerun_vars, pipeline_vars>>

\* translator.get_aggregation_type(formula)
GetAggregationType ==
  /\ pc = "translated"
  /\ aggregation_type' = get_aggregation_type(calculation)
  /\ pc' = "done"
  /\ UNCHANGED <<translator, calculation, translated>>
  /\ UNCHANGED <<transformer_vars, zone_vars>>
  /\ UNCHANGED <<sanitizer_vars, qualifier_vars, rerun_vars, pipeline_vars>>

NextTranslate == Translate \/ GetAggregationType

SpecTranslate == InitTranslate /\ [][NextTranslate]_vars

\* NAME( [field] )
PlainCallFormulas ==
  { n \o Spaces(k) \o <<"(">> \o Bracketed(f) \o <<")">> :
      n \in AllNames, k \in 0..MaxSpaces, f \in FieldNames }

InitFault ==
  /\ translator \in TableNames
  /\ calculation \in
       {None} \cup {Some(f) : f \in PlainCallFormulas \cup LodFormulas \cup OtherFormulas}
  /\ pc = "new"
  /\ translated = NoResult
  /\ aggregation_type = "unset"
  /\ TransformerIdle
  /\ ZoneIdle
  /\ SanitizerIdle
  /\ QualifierIdle
  /\ RerunIdle
  /\ PipelineIdle

\* translator.translate(formula) with a rewrite stage that raises an exception
TranslateRaising ==
  /\ pc = "new"
  /\ translated' = translate(translator, calculation, TRUE)
  /\ pc' = "translated"
  /\ UNCHANGED <<translator, calculation, aggregation_type>>
  /\ UNCHANGED <<transformer_vars, zone_vars>>
  /\ UNCHANGED <<sanitizer_vars, qualifier_vars, rerun_vars, pipeline_vars>>

NextFault == Translate \/ TranslateRaising \/ GetAggregationType

\* the translator with a rewrite stage that may raise
SpecFault == InitFault /\ [][NextFault]_vars

\* CanonicalTransformer() and the tableau_workbook it is to transform
InitTransform ==
  /\ tableau_workbook \in Workbooks
  /\ transformer = NewTransformer
  /\ report = None
  /\ pc = "new"
  /\ TranslatorIdle
  /\ ZoneIdle
  /\ SanitizerIdle
  /\ QualifierIdle
  /\ RerunIdle
  /\ PipelineIdle

\* transformer.transform(tableau_workbook)
Transform ==
  /\ pc = "new"
  /\ \E order \in PlaceholderOrders(tableau_workbook) :
       LET Returned(t) ==
             /\ report' = Some(t.report)
             /\ transformer' = t.self
       IN  Returned(transform(transformer, tableau_workbook, order))
  /\ pc' = "transformed"
  /\ UNCHANGED <<tableau_workbook, translator_vars, zone_vars>>
  /\ UNCHANGED <<sanitizer_vars, qualifier_vars, rerun_vars, pipeline_vars>>

NextTransform == Transform

SpecTransform == InitTransform /\ [][NextTransform]_vars

\* CanonicalTransformer() and a tableau_workbook whose layout is looked at
InitLayout ==
  /\ tableau_workbook \in LayoutWorkbooks
  /\ transformer = NewTransformer
  /\ report = None
  /\ pc = "new"
  /\ TranslatorIdle
  /\ ZoneIdle
  /\ SanitizerIdle
  /\ QualifierIdle
  /\ RerunIdle
  /\ PipelineIdle

NextLayout == Transform

SpecLayout == InitLayout /\ [][NextLayout]_vars

\* CanonicalTransformer() and a tableau_workbook whose measures are looked at
InitMeasures ==
  /\ tableau_workbook \in MeasureWorkbooks
  /\ transformer = NewTransformer
  /\ report = None
  /\ pc = "new"
  /\ TranslatorIdle
  /\ ZoneIdle
  /\ SanitizerIdle
  /\ QualifierIdle
  /\ RerunIdle
  /\ PipelineIdle

NextMeasures == Transform

SpecMeasures == InitMeasures /\ [][NextMeasures]_vars

\* a dashboard_zone with any of the coordinates
InitScale ==
  /\ dashboard_zone \in { Zone("viz", Some(<<"S", "a", "l", "e", "s", " ", "b", "y", " ", "R", "e", "g", "i", "o", "n">>), x, y, w, h) :
                  x \in Coordinates, y \in Coordinates,
                  w \in Coordinates, h \in Coordinates }
  /\ scaled = None
  /\ pc = "new"
  /\ TranslatorIdle
  /\ TransformerIdle
  /\ SanitizerIdle
  /\ QualifierIdle
  /\ RerunIdle
  /\ PipelineIdle

\* transformer._scale_zone_position(dashboard_zone)
ScaleZonePosition ==
  /\ pc = "new"
  /\ scaled' = Some(scale_zone_position(dashboard_zone))
  /\ pc' = "scaled"
  /\ UNCHANGED <<dashboard_zone, translator_vars, transformer_vars>>
  /\ UNCHANGED <<sanitizer_vars, qualifier_vars, rerun_vars, pipeline_vars>>

NextScale == ScaleZonePosition

SpecScale == InitScale /\ [][NextScale]_vars

\* a name to sanitize
InitSanitize ==
  /\ raw_name \in Names
  /\ safe_name = None
  /\ safe_again = None
  /\ pc = "new"
  /\ TranslatorIdle
  /\ TransformerIdle
  /\ ZoneIdle
  /\ QualifierIdle
  /\ RerunIdle
  /\ PipelineIdle

\* transformer._sanitize_name(raw_name)
Sanitize ==
  /\ pc = "new"
  /\ safe_name' = Some(sanitize_name(raw_name))
  /\ pc' = "sanitized"
  /\ UNCHANGED <<raw_name, safe_again>>
  /\ UNCHANGED <<translator_vars, transformer_vars, zone_vars>>
  /\ UNCHANGED <<qualifier_vars, rerun_vars, pipeline_vars>>

\* transformer._sanitize_name(safe_name)
SanitizeAgain ==
  /\ pc = "sanitized"
  /\ safe_again' = Some(sanitize_name(safe_name.val))
  /\ pc' = "resanitized"
  /\ UNCHANGED <<raw_name, safe_name>>
  /\ UNCHANGED <<translator_vars, transformer_vars, zone_vars>>
  /\ UNCHANGED <<qualifier_vars, rerun_vars, pipeline_vars>>

NextSanitize == Sanitize \/ SanitizeAgain

SpecSanitize == InitSanitize /\ [][NextSanitize]_vars

\* CalculationTranslator(table_name) and a formula with a field reference
InitQualify ==
  /\ translator \in TableNames
  /\ calculation \in {Some(f) : f \in ReferenceFormulas}
  /\ translated = NoResult
  /\ aggregation_type = "unset"
  /\ qualified_formula = None
  /\ requalified_formula = None
  /\ pc = "new"
  /\ TransformerIdle
  /\ ZoneIdle
  /\ SanitizerIdle
  /\ RerunIdle
  /\ PipelineIdle

\* translator._qualify_field_references(formula)
Qualify ==
  /\ pc = "new"
  /\ qualified_formula' = Some(qualify_field_references(calculation.val, translator))
  /\ pc' = "qualified"
  /\ UNCHANGED <<requalified_formula, translator_vars, transformer_vars, zone_vars>>
  /\ UNCHANGED <<sanitizer_vars, rerun_vars, pipeline_vars>>

\* translator._qualify_field_references(qualified_formula)
QualifyAgain ==
  /\ pc = "qualified"
  /\ requalified_formula' =
       Some(qualify_field_references(qualified_formula.val, translator))
  /\ pc' = "requalified"
  /\ UNCHANGED <<qualified_formula, translator_vars, transformer_vars, zone_vars>>
  /\ UNCHANGED <<sanitizer_vars, rerun_vars, pipeline_vars>>

NextQualify == Qualify \/ QualifyAgain

SpecQualify == InitQualify /\ [][NextQualify]_vars

\* the workbook without datasources, worksheets and dashboards
BareWorkbook ==
  [name |-> <<"S", "u", "p", "e", "r", "s", "t", "o", "r", "e", " ", "2", "0", "2", "4">>,
   datasources |-> <<>>, worksheets |-> <<>>, dashboards |-> <<>>]

\* the order in which the first call of transform iterated fields_seen, read
\* off the columns of its placeholder table
FirstOrder ==
  LET Shown(columns) == [i \in 1..Len(columns) |-> columns[i].display_name]
  IN  IF FieldsSeen(tableau_workbook.worksheets) = {} THEN <<>>
      ELSE Shown(report.val.dataset.tables[1].columns)

\* the orders in which a second call in the same process may iterate
\* fields_seen: a set built again from the same strings in the same order is
\* iterated as before
SameProcessOrders(workbook) ==
  IF /\ workbook = tableau_workbook
     /\ \A i \in 1..Len(workbook.datasources) : Len(workbook.datasources[i].tables) = 0
  THEN {FirstOrder}
  ELSE PlaceholderOrders(workbook)

\* transformer.transform(later_workbook) on the CanonicalTransformer of the
\* first call.  The first report holds the transformer's own warnings list and
\* unsupported_features dict (no copies), so it shows what this call appends.
TransformAgain ==
  /\ pc = "transformed"
  /\ \E workbook \in {tableau_workbook, BareWorkbook} :
       \E order \in SameProcessOrders(workbook) :
         LET Returned(t) ==
               /\ later_report' = Some(t.report)
               /\ transformer' = t.self
               /\ report' = Some([report.val EXCEPT
                                    !.migration_warnings = t.self.warnings,
                                    !.unsupported_features = t.self.unsupported_features])
         IN  /\ Returned(transform(transformer, workbook, order))
             /\ later_workbook' = workbook
  /\ pc' = "transformed_again"
  /\ UNCHANGED <<tableau_workbook, translator_vars, zone_vars>>
  /\ UNCHANGED <<sanitizer_vars, qualifier_vars, pipeline_vars>>

\* CanonicalTransformer().transform(later_workbook) in another run of the
\* program, on a workbook equal to the first one: a new transformer, and string
\* hashes of its own
TransformAnew ==
  /\ pc = "transformed"
  /\ \E order \in PlaceholderOrders(tableau_workbook) :
       later_report' = Some(transform(NewTransformer, tableau_workbook, order).report)
  /\ later_workbook' = tableau_workbook
  /\ pc' = "transformed_again"
  /\ UNCHANGED <<transformer_vars, translator_vars, zone_vars>>
  /\ UNCHANGED <<sanitizer_vars, qualifier_vars, pipeline_vars>>

NextRerun == Transform \/ TransformAgain \/ TransformAnew

\* two calls of transform
SpecRerun == InitTransform /\ [][NextRerun]_vars

\* MigrationPipeline(config): the files under config.input_path, and whether
\* config.output_path exists
InitPipeline ==
  /\ twbx_files \in FileLists
  /\ output_dir \in BOOLEAN
  /\ migration_reports = <<>>
  /\ returned = None
  /\ temp_dir = "none"
  /\ pc = "new"
  /\ TranslatorIdle
  /\ TransformerIdle
  /\ ZoneIdle
  /\ SanitizerIdle
  /\ QualifierIdle
  /\ RerunIdle

\* pipeline.run(), the first and the second call on one MigrationPipeline
Run ==
  /\ pc \in {"new", "ran"}
  /\ LET Returned(r) ==
           /\ migration_reports' = r.self.migration_reports
           /\ output_dir' = r.exists
           /\ returned' = Some(r.returned)
     IN  Returned(run([migration_reports |-> migration_reports], twbx_files, output_dir))
  /\ pc' = IF pc = "new" THEN "ran" ELSE "ran_again"
  /\ UNCHANGED <<twbx_files, temp_dir, translator_vars, transformer_vars, zone_vars>>
  /\ UNCHANGED <<sanitizer_vars, qualifier_vars, rerun_vars>>

NextPipeline == Run

SpecPipeline == InitPipeline /\ [][NextPipeline]_vars

\* the file _process_file is at work on: run hands the files over in order
\* and appends one report per file
twbx_file == twbx_files[Len(migration_reports) + 1]

\* what the steps of _process_file leave alone
ProcessFrame ==
  /\ UNCHANGED <<twbx_files, returned>>
  /\ UNCHANGED <<translator_vars, transformer_vars, zone_vars>>
  /\ UNCHANGED <<sanitizer_vars, qualifier_vars, rerun_vars>>

\* run finds no file and returns the empty list
RunWithoutFiles ==
  /\ pc = "new"
  /\ Len(twbx_files) = 0
  /\ returned' = Some([raised |-> FALSE, reports |-> <<>>])
  /\ pc' = "ran"
  /\ UNCHANGED <<twbx_files, output_dir, migration_reports, temp_dir>>
  /\ UNCHANGED <<translator_vars, transformer_vars, zone_vars>>
  /\ UNCHANGED <<sanitizer_vars, qualifier_vars, rerun_vars>>

\* Stage 1 of _process_file: TableauExtractor(twbx_file).extract().  A packaged
\* workbook is unpacked into a new temporary directory, a plain one is read
\* in place; the call may raise before or after the directory is made.
Extract ==
  /\ pc = "new"
  /\ Len(migration_reports) < Len(twbx_files)
  /\ \E packaged \in BOOLEAN :
       temp_dir' = IF packaged THEN "created" ELSE "none"
  /\ pc' = IF twbx_file.raises = "extract" THEN "except" ELSE "extracted"
  /\ UNCHANGED <<output_dir, migration_reports>>
  /\ ProcessFrame

\* Stage 2 of _process_file: CanonicalTransformer().transform(tableau_workbook)
TransformStage ==
  /\ pc = "extracted"
  /\ pc' = IF twbx_file.raises = "transform" THEN "except" ELSE "canonical"
  /\ UNCHANGED <<output_dir, migration_reports, temp_dir>>
  /\ ProcessFrame

\* Stages 3 and 4 of _process_file: generator.generate(canonical_report),
\* which makes the output directory first
Generate ==
  /\ pc = "canonical"
  /\ output_dir' = TRUE
  /\ pc' = IF twbx_file.raises = "generate" THEN "except" ELSE "generated"
  /\ UNCHANGED <<migration_reports, temp_dir>>
  /\ ProcessFrame

\* extractor.cleanup(), the last statement of the try block
Cleanup ==
  /\ pc = "generated"
  /\ IF twbx_file.raises = "cleanup"
     THEN pc' = "except" /\ UNCHANGED temp_dir
     ELSE /\ pc' = "cleaned"
          /\ temp_dir' = IF temp_dir = "created" THEN "removed" ELSE temp_dir
  /\ UNCHANGED <<output_dir, migration_reports>>
  /\ ProcessFrame

\* the except clause of _process_file, and its return statement: run appends
\* the report
Except ==
  /\ pc = "except"
  /\ migration_reports' =
       Append(migration_reports, process_file(twbx_file, output_dir).migration_report)
  /\ pc' = "returned"
  /\ UNCHANGED <<output_dir, temp_dir>>
  /\ ProcessFrame

\* the return statement of _process_file after a try block that ran to its
\* end: run appends the report
Return ==
  /\ pc = "cleaned"
  /\ migration_reports' =
       Append(migration_reports, process_file(twbx_file, output_dir).migration_report)
  /\ pc' = "returned"
  /\ UNCHANGED <<output_dir, temp_dir>>
  /\ ProcessFrame

\* the loop of run goes on to the next file, with an extractor of its own
NextFile ==
  /\ pc = "returned"
  /\ Len(migration_reports) < Len(twbx_files)
  /\ temp_dir' = "none"
  /\ pc' = "new"
  /\ UNCHANGED <<output_dir, migration_reports>>
  /\ ProcessFrame

\* the end of run: _generate_summary_report and the return statement
Summarise ==
  /\ pc = "returned"
  /\ Len(migration_reports) = Len(twbx_files)
  /\ returned' = Some(IF output_dir
                      THEN [raised |-> FALSE, reports |-> migration_reports]
                      ELSE [raised |-> TRUE, reports |-> <<>>])
  /\ pc' = "ran"
  /\ UNCHANGED <<twbx_files, output_dir, migration_reports, temp_dir>>
  /\ UNCHANGED <<translator_vars, transformer_vars, zone_vars>>
  /\ UNCHANGED <<sanitizer_vars, qualifier_vars, rerun_vars>>

NextProcess ==
  \/ RunWithoutFiles
  \/ Extract
  \/ TransformStage
  \/ Generate
  \/ Cleanup
  \/ Except
  \/ Return
  \/ NextFile
  \/ Summarise

\* one call of run, file by file and stage by stage
SpecProcess == InitPipeline /\ [][NextProcess]_vars

(***************************************************************************)
(* Properties of the translator.                                           *)
(***************************************************************************)
\* severity rank of the confidence levels: HIGH > MEDIUM > LOW > UNSUPPORTED
SeverityRank == [HIGH |-> 3, MEDIUM |-> 2, LOW |-> 1, UNSUPPORTED |-> 0]

Weakest(S) == CHOOSE c \in S : \A d \in S : SeverityRank[c] <= SeverityRank[d]

\* s contains a call (name, optional spaces, '(') of one of the names, any case
HasCall(s, names) == \E n \in names : SearchCall(s, n, TRUE, TRUE)

LodKeywordSet == {LodKeywords[j] : j \in 1..Len(LodKeywords)}

\* the table-calculation and scripting functions of the unsupported list
TableCalcNames == UnsupportedNames \ LodKeywordSet

\* the functions that have no target equivalent
NoEquivalentNames ==
  {FUNCTION_MAP[k].name : k \in {j \in 1..Len(FUNCTION_MAP) : ~FUNCTION_MAP[j].dax.some}}

\* the keywords (upper case) that follow an opening brace of s, in any case
LodKeywordsFound(s) ==
  {kw \in LodKeywordSet :
     \E i \in 1..Len(s) : s[i] = "{" /\ MatchAt(s, SkipSpace(s, i + 1), kw, TRUE)}

Translated == pc # "new" /\ calculation.some

\* C1: for every formula that is not rejected as unsupported, the confidence
\* translate returns is the weakest, by severity rank, of the confidences of
\* the aggregation, function and conditional stages.
C1_WeakestStageConfidence ==
  (Translated /\ translated.rewritten) =>
     translated.confidence =
       Weakest({translated.stages.agg_conf, translated.stages.func_conf, translated.stages.cond_conf})

\* C2: a formula that contains, in any letter case, a call of a function of the
\* unsupported list is answered with a null expression, confidence UNSUPPORTED
\* and a reason, and no rewrite stage runs on it.
C2_UnsupportedFunctionRejected ==
  (Translated /\ HasCall(calculation.val, TableCalcNames)) =>
     /\ translated.expr = None
     /\ translated.confidence = "UNSUPPORTED"
     /\ translated.reason.some
     /\ ~translated.rewritten

\* C2 witness: a lower-case call of an unsupported function, written after a
\* supported call, has been rejected
C2_Witness ==
  /\ pc = "done"
  /\ calculation.some
  /\ HasCall(calculation.val, {<<"S", "P", "L", "I", "T">>})
  /\ \E n \in TableCalcNames :
        SearchCall(calculation.val, StrLower(n), TRUE, FALSE)
  /\ translated.confidence = "UNSUPPORTED"
  /\ translated.expr = None

\* C3: a formula with both braces in which FIXED, INCLUDE or EXCLUDE (any case)
\* follows an opening brace is answered with (null, UNSUPPORTED, reason), and
\* the reason names, in upper case, a keyword that was found.
C3_LodRejectedWithKeyword ==
  (/\ Translated
   /\ Contains(calculation.val, "{")
   /\ Contains(calculation.val, "}")
   /\ LodKeywordsFound(calculation.val) # {}) =>
     /\ translated.expr = None
     /\ translated.confidence = "UNSUPPORTED"
     /\ translated.reason.some
     /\ translated.reason.val.keyword \in LodKeywordsFound(calculation.val)

\* C3 witness: "{ include [Region] : SUM([Sales])}" was rejected, naming INCLUDE
C3_Witness ==
  /\ pc = "done"
  /\ calculation =
       Some(<<"{", " ", "i", "n", "c", "l", "u", "d", "e">> \o LodBody \o <<"}">>)
  /\ translated.confidence = "UNSUPPORTED"
  /\ translated.reason = Some(Reason("LOD Expression (", LodKeywords[2],
                                  ") - Not supported in DAX"))

\* C4: a formula that is not rejected as unsupported and contains a call of a
\* function without target equivalent, or the CASE keyword, is answered with a
\* non-null expression and confidence MEDIUM.
C4_NoEquivalentGivesMedium ==
  (/\ Translated
   /\ translated.confidence # "UNSUPPORTED"
   /\ \/ HasCall(calculation.val, NoEquivalentNames)
      \/ SearchCase(calculation.val)) =>
     /\ translated.expr.some
     /\ translated.confidence = "MEDIUM"

\* C5: for every aggregation name A of the table, field f and owning table T,
\* translate("A([f])") returns Target(A)('T'[f]), HIGH and no reason, and
\* get_aggregation_type returns the kind the table assigns to A.
C5_AggregationRoundTrip ==
  pc = "done" =>
    \A k \in 1..Len(AGGREGATION_MAP), f \in FieldNames :
      calculation =
          Some(AGGREGATION_MAP[k].name \o <<"(">> \o Bracketed(f) \o <<")">>) =>
        /\ translated.expr =
             Some(AGGREGATION_MAP[k].dax \o <<"(", "'">> \o translator \o <<"'">>
                    \o Bracketed(f) \o <<")">>)
        /\ translated.confidence = "HIGH"
        /\ translated.reason = None
        /\ aggregation_type = AGGREGATION_MAP[k].kind

\* C7: translate always returns a triple; when the rewrite stage raises, the
\* triple is a null expression with confidence LOW and a reason.
C7_TranslateTotal ==
  pc # "new" =>
    /\ translated.confidence \in ConfidenceLevel
    /\ translated.expr.some \in BOOLEAN
    /\ translated.reason.some \in BOOLEAN
    /\ translated.raised =>
         (translated.expr = None /\ translated.confidence = "LOW" /\ translated.reason.some)

\* C7 witness: the rewrite stage raised on SUM([Sales]) and translate returned
C7_Witness ==
  /\ pc = "done"
  /\ calculation = Some(<<"S", "U", "M", "(", "[", "S", "a", "l", "e", "s", "]", ")">>)
  /\ translated.raised
  /\ translated.confidence = "LOW"

\* C16: translate("ZN(x)") returns IF(ISBLANK(x'), 0, x') and
\* translate("IFNULL(x, 0)") returns IF(ISBLANK(x'), 0, x'), x' being the
\* qualified field x, whenever the formula is not rejected as unsupported.
C16_NullCoalescingRewrite ==
  (Translated /\ translated.confidence # "UNSUPPORTED") =>
    \A f \in FieldNames :
      LET Coalesced ==
            Some(IfIsBlank(<<"'">> \o translator \o <<"'">> \o Bracketed(f), <<"0">>))
      IN  /\ calculation = Some(<<"Z", "N", "(">> \o Bracketed(f) \o <<")">>) =>
               translated.expr = Coalesced
          /\ calculation = Some(<<"I", "F", "N", "U", "L", "L", "(">> \o Bracketed(f) \o <<",", " ", "0", ")">>) =>
               translated.expr = Coalesced

\* the number of occurrences of c among the first n characters of s
Count(s, c, n) == Cardinality({i \in 1..n : s[i] = c})

\* every closing character of s closes an opening one, and none stays open
Balanced(s, opening, closing) ==
  /\ \A n \in 1..Len(s) : Count(s, closing, n) <= Count(s, opening, n)
  /\ Count(s, closing, Len(s)) = Count(s, opening, Len(s))

\* C17: every non-null expression translate returns has balanced parentheses
\* and balanced square brackets.
C17_BalancedExpression ==
  (Translated /\ translated.expr.some) =>
    /\ Balanced(translated.expr.val, "(", ")")
    /\ Balanced(translated.expr.val, "[", "]")

\* name occurs in s in any letter case, at a word boundary, followed by '(' ;
\* spaced: white space may stand between the name and the '('
OccursAsCall(s, name, spaced) ==
  \E i \in 1..Len(s) :
    /\ MatchAt(s, i, name, TRUE)
    /\ WordBoundary(s, i)
    /\ CharAt(s, IF spaced THEN SkipSpace(s, i + Len(name)) ELSE i + Len(name)) = "("

\* the kind of the first entry of the aggregation table that occurs in the
\* formula, "none" when there is none or the formula is empty
ExpectedAggregation(formula, spaced) ==
  LET Kind(k) == IF k = 0 THEN "none" ELSE AGGREGATION_MAP[k].kind
  IN  IF Falsy(formula) THEN "none"
      ELSE Kind(First({k \in 1..Len(AGGREGATION_MAP) :
                         OccursAsCall(formula.val, AGGREGATION_MAP[k].name, spaced)}))

RECURSIVE OutsideBrackets(_, _, _)
OutsideBrackets(s, i, inside) ==
  IF i > Len(s) THEN <<>>
  ELSE IF inside
  THEN (IF s[i] = "]" THEN <<"]">> ELSE <<>>)
         \o OutsideBrackets(s, i + 1, s[i] # "]")
  ELSE <<s[i]>> \o OutsideBrackets(s, i + 1, s[i] = "[")

\* C28: translate returns UNSUPPORTED only for a formula that holds, outside
\* the brackets of its field references, a level-of-detail brace expression
\* or a call of a function of the unsupported list.
C28_UnsupportedOnlyWhenReal ==
  (pc # "new" /\ translated.confidence = "UNSUPPORTED") =>
    \/ LodSearch(OutsideBrackets(calculation.val, 1, FALSE)).some
    \/ HasCall(OutsideBrackets(calculation.val, 1, FALSE), UnsupportedNames)

(***************************************************************************)
(* Properties of the transformer.                                          *)
(***************************************************************************)
Transformed == pc = "transformed" /\ report.some

\* the positions <<table, measure>> of the measures of a list of tables
MeasurePositions(tables) ==
  UNION { {<<i, j>> : j \in 1..Len(tables[i].measures)} : i \in 1..Len(tables) }

\* the positions <<datasource, field>> of the calculated fields of a workbook
\* whose formula is not null
FormulaPositions(workbook) ==
  UNION { {<<i, j>> : j \in {k \in 1..Len(workbook.datasources[i].calculated_fields) :
                               workbook.datasources[i].calculated_fields[k].calculation.some}} :
          i \in 1..Len(workbook.datasources) }

\* no datasource of the workbook has a table
YieldsNoTables(workbook) ==
  \A i \in 1..Len(workbook.datasources) : Len(workbook.datasources[i].tables) = 0

\* C6: every measure of a report transform returned has a null dax_expression
\* exactly when its confidence is UNSUPPORTED, and a non-null
\* unsupported_reason exactly when its confidence is UNSUPPORTED.
C6_MeasureNullness ==
  Transformed =>
    \A p \in MeasurePositions(report.val.dataset.tables) :
      LET m == report.val.dataset.tables[p[1]].measures[p[2]]
      IN  /\ (m.dax_expression = None) <=> (m.confidence = "UNSUPPORTED")
          /\ m.unsupported_reason.some <=> (m.confidence = "UNSUPPORTED")

\* C6 witness: a report whose first table holds a measure that is UNSUPPORTED,
\* without expression and with a reason, and a measure that is HIGH, with an
\* expression and without reason
C6_Witness ==
  /\ Transformed
  /\ Len(report.val.dataset.tables) > 0
  /\ \E i, j \in 1..Len(report.val.dataset.tables[1].measures) :
        LET a == report.val.dataset.tables[1].measures[i]
            b == report.val.dataset.tables[1].measures[j]
        IN  /\ a.confidence = "UNSUPPORTED"
            /\ a.dax_expression = None
            /\ a.unsupported_reason.some
            /\ b.confidence = "HIGH"
            /\ b.dax_expression.some
            /\ b.unsupported_reason = None

\* C8: the number of measures over all tables of the report equals the number
\* of calculated fields, over all datasources, whose formula is not null.
C8_MeasureCount ==
  Transformed =>
    Cardinality(MeasurePositions(report.val.dataset.tables))
      = Cardinality(FormulaPositions(tableau_workbook))

\* C9: every report has a page, a table, and a column in every table; without
\* dashboards and worksheets it has exactly one page, 1280x720 and without
\* visuals; when no datasource has a table the dataset holds exactly one
\* table, the placeholder, with at least one column.
C9_NeverEmpty ==
  Transformed =>
    LET pages == report.val.pages
        tables == report.val.dataset.tables
    IN  /\ Len(pages) >= 1
        /\ Len(tables) >= 1
        /\ \A i \in 1..Len(tables) : Len(tables[i].columns) >= 1
        /\ (Len(tableau_workbook.dashboards) = 0 /\ Len(tableau_workbook.worksheets) = 0) =>
             /\ Len(pages) = 1
             /\ pages[1].width = 1280
             /\ pages[1].height = 720
             /\ pages[1].visuals = <<>>
        /\ YieldsNoTables(tableau_workbook) =>
             /\ Len(tables) = 1
             /\ tables[1].source_table = None
             /\ tables[1].description =
                  Some("Placeholder table - no datasource metadata available")
             /\ Len(tables[1].columns) >= 1

\* C9 witness: a workbook without datasources, worksheets and dashboards was
\* transformed into the default page and the placeholder table with its
\* column Value
C9_Witness ==
  /\ Transformed
  /\ tableau_workbook.datasources = <<>>
  /\ tableau_workbook.worksheets = <<>>
  /\ tableau_workbook.dashboards = <<>>
  /\ Len(report.val.pages) = 1
  /\ report.val.pages[1].name = <<"P", "a", "g", "e", "1">>
  /\ Len(report.val.dataset.tables) = 1
  /\ report.val.dataset.tables[1].name = <<"D", "a", "t", "a">>
  /\ report.val.dataset.tables[1].columns[1].name = <<"V", "a", "l", "u", "e">>

\* C10: the box _scale_zone_position computes is at least 100 wide and 100
\* high and ends within the 1280x720 canvas: x + width <= 1280 and
\* y + height <= 720.
C10_BoxWithinCanvas ==
  (pc = "scaled" /\ scaled.some) =>
    /\ scaled.val.width >= 100
    /\ scaled.val.height >= 100
    /\ scaled.val.x + scaled.val.width <= 1280
    /\ scaled.val.y + scaled.val.height <= 720

\* C10 witness: the zone x=1100, y=750, w=300, h=200 was scaled to the box
\* x=960, y=540, w=320, h=180
C10_Witness ==
  /\ pc = "scaled"
  /\ dashboard_zone.x = 1100 /\ dashboard_zone.y = 750
  /\ dashboard_zone.width = 300 /\ dashboard_zone.height = 200
  /\ scaled = Some([x |-> 960, y |-> 540, width |-> 320, height |-> 180])

\* the elements of a sequence
Items(s) == {s[i] : i \in 1..Len(s)}

\* no element occurs twice in the sequence
PairwiseDistinct(s) == \A i, j \in 1..Len(s) : i # j => s[i] # s[j]

\* non-empty, made of letters, digits, '_' and '-', and not starting with a digit
WriterSafe(n) ==
  /\ Len(n) > 0
  /\ \A i \in 1..Len(n) : n[i] \in AlnumChars \cup {"_", "-"}
  /\ n[1] \notin Digits

\* the encodings of a visual
Encodings(visual) ==
  Items(visual.category) \cup Items(visual.values)
    \cup Items(visual.series) \cup Items(visual.tooltip)

\* C12: in a report transform returned, the name of every table, column,
\* measure, page and visual, and the field name and table name of every visual
\* encoding, is writer-safe.
C12_IdentifiersWriterSafe ==
  Transformed =>
    /\ \A t \in Items(report.val.dataset.tables) :
         /\ WriterSafe(t.name)
         /\ \A c \in Items(t.columns) : WriterSafe(c.name)
         /\ \A m \in Items(t.measures) : WriterSafe(m.name)
    /\ \A p \in Items(report.val.pages) :
         /\ WriterSafe(p.name)
         /\ \A v \in Items(p.visuals) :
              /\ WriterSafe(v.name)
              /\ \A e \in Encodings(v) :
                   WriterSafe(e.field_name) /\ WriterSafe(e.table_name.val)

\* the source tables of a workbook, datasource after datasource
RECURSIVE SourceTables(_, _)
SourceTables(workbook, k) ==
  IF k > Len(workbook.datasources) THEN <<>>
  ELSE workbook.datasources[k].tables \o SourceTables(workbook, k + 1)

\* the names of the elements of a sequence
NamesOf(s) == [i \in 1..Len(s) |-> s[i].name]

\* the source table names are distinct, and so are the column names of each
\* source table
SourceNamesDistinct(workbook) ==
  /\ PairwiseDistinct(NamesOf(SourceTables(workbook, 1)))
  /\ \A t \in Items(SourceTables(workbook, 1)) : PairwiseDistinct(NamesOf(t.columns))

\* C18: for a workbook with distinct source table names and distinct column
\* names in each source table, the report has pairwise distinct table names
\* and, in each table, pairwise distinct column names.
C18_NamesUnique ==
  (Transformed /\ SourceNamesDistinct(tableau_workbook)) =>
    /\ PairwiseDistinct(NamesOf(report.val.dataset.tables))
    /\ \A t \in Items(report.val.dataset.tables) : PairwiseDistinct(NamesOf(t.columns))

\* the number of source tables of the datasources before datasource i: the
\* tables of datasource i follow them in the dataset
RECURSIVE TablesBefore(_, _)
TablesBefore(workbook, i) ==
  IF i <= 1 THEN 0
  ELSE TablesBefore(workbook, i - 1) + Len(workbook.datasources[i - 1].tables)

\* the calculated fields of a datasource that carry a formula, in source order
FieldsWithFormula(datasource) ==
  Pick(datasource.calculated_fields,
       {k \in 1..Len(datasource.calculated_fields) :
          ~Falsy(datasource.calculated_fields[k].calculation)})

\* the measures of the table are those of the fields, one by one
MeasuresOf(table, fields) ==
  /\ Len(table.measures) = Len(fields)
  /\ \A k \in 1..Len(table.measures) :
       /\ k <= Len(fields)
       /\ table.measures[k].name = sanitize_name(fields[k].name)
       /\ table.measures[k].expression = fields[k].calculation.val

\* C21: for every datasource, the table built from its first table holds one
\* measure per calculated field that carries a formula, in the order of the
\* fields and each with the source formula as its expression, the tables built
\* from its other tables hold no measure, and a field without formula gives
\* no measure.
C21_MeasuresOnFirstTable ==
  Transformed =>
    \A i \in 1..Len(tableau_workbook.datasources) :
      LET d == tableau_workbook.datasources[i]
          first == TablesBefore(tableau_workbook, i) + 1
      IN  /\ Len(FieldsWithFormula(d)) > 0 => Len(d.tables) > 0
          /\ Len(d.tables) > 0 =>
               /\ MeasuresOf(report.val.dataset.tables[first], FieldsWithFormula(d))
               /\ \A j \in 2..Len(d.tables) :
                    report.val.dataset.tables[first + j - 1].measures = <<>>

\* C22: a workbook with dashboards gives one page per dashboard, in dashboard
\* order; one without dashboards gives one page per worksheet, in worksheet
\* order, each with the one visual of its worksheet; one without dashboards
\* and worksheets gives the one default page.
C22_PageList ==
  Transformed =>
    LET pages == report.val.pages
        dashboards == tableau_workbook.dashboards
        worksheets == tableau_workbook.worksheets
    IN  /\ Len(dashboards) > 0 =>
             /\ Len(pages) = Len(dashboards)
             /\ \A i \in 1..Len(pages) :
                  /\ i <= Len(dashboards)
                  /\ pages[i].source_dashboard = Some(dashboards[i].name)
                  /\ pages[i].name = sanitize_name(dashboards[i].name)
        /\ (Len(dashboards) = 0 /\ Len(worksheets) > 0) =>
             /\ Len(pages) = Len(worksheets)
             /\ \A i \in 1..Len(pages) :
                  /\ i <= Len(worksheets)
                  /\ pages[i].source_dashboard = None
                  /\ pages[i].name = sanitize_name(worksheets[i].name)
                  /\ Len(pages[i].visuals) = 1
                  /\ pages[i].visuals[1].source_worksheet = Some(worksheets[i].name)
        /\ (Len(dashboards) = 0 /\ Len(worksheets) = 0) =>
             /\ Len(pages) = 1
             /\ pages[1].name = <<"P", "a", "g", "e", "1">>
             /\ pages[1].source_dashboard = None
             /\ pages[1].visuals = <<>>

\* C22 witness: the dashboards 'Wall Display' and 'Overview' of a workbook
\* that also has a worksheet gave the two pages Wall_Display and Overview
C22_Witness ==
  /\ Transformed
  /\ Len(tableau_workbook.worksheets) > 0
  /\ NamesOf(tableau_workbook.dashboards)
       = << <<"W", "a", "l", "l", " ", "D", "i", "s", "p", "l", "a", "y">>,
            <<"O", "v", "e", "r", "v", "i", "e", "w">> >>
  /\ NamesOf(report.val.pages)
       = << <<"W", "a", "l", "l", "_", "D", "i", "s", "p", "l", "a", "y">>,
            <<"O", "v", "e", "r", "v", "i", "e", "w">> >>

\* the zones of a dashboard of kind 'viz' whose worksheet name resolves to a
\* worksheet of the workbook, in zone order
ResolvedZones(dashboard, workbook) ==
  Pick(dashboard.zones,
       {k \in 1..Len(dashboard.zones) :
          /\ dashboard.zones[k].zone_type = "viz"
          /\ dashboard.zones[k].worksheet_name.some
          /\ \E w \in Items(workbook.worksheets) :
               w.name = dashboard.zones[k].worksheet_name.val})

\* the box of a visual
Box(v) == [x |-> v.x, y |-> v.y, width |-> v.width, height |-> v.height]

WorksheetOf(visual) ==
  CHOOSE w \in Items(tableau_workbook.worksheets) : Some(w.name) = visual.source_worksheet

\* the visuals of the pages of a report
VisualsOf(pages) == UNION {Items(p.visuals) : p \in Items(pages)}

\* C25: a visual built from a dual-axis worksheet has confidence MEDIUM and
\* at least one note, a visual built from another worksheet has confidence
\* HIGH and no note, with or without a zone; transform returns.
C25_DualAxisDowngrade ==
  (pc = "transformed") =>
    /\ report.some
    /\ \A v \in VisualsOf(report.val.pages) :
         IF WorksheetOf(v).is_dual_axis
         THEN v.confidence = "MEDIUM" /\ Len(v.unsupported_features) >= 1
         ELSE v.confidence = "HIGH" /\ v.unsupported_features = <<>>

\* C25 witness: the dual-axis worksheet 'Profit Trend' gave a MEDIUM visual
\* with a note on the page of a dashboard that places it in a zone and on the
\* page of a dashboard without zones
C25_Witness ==
  /\ Transformed
  /\ Len(tableau_workbook.dashboards) = 2
  /\ Len(tableau_workbook.dashboards[1].zones) = 1
  /\ Len(tableau_workbook.dashboards[2].zones) = 0
  /\ \A i \in 1..2 :
       /\ Len(report.val.pages[i].visuals) = 1
       /\ report.val.pages[i].visuals[1].source_worksheet
            = Some(<<"P", "r", "o", "f", "i", "t", " ", "T", "r", "e", "n", "d">>)
       /\ report.val.pages[i].visuals[1].confidence = "MEDIUM"
       /\ Len(report.val.pages[i].visuals[1].unsupported_features) = 1
  /\ report.val.pages[1].visuals[1].x = 960
  /\ report.val.pages[2].visuals[1].x = 50

\* the place of the worksheet at order index i (from 0) on the 2-column grid
GridPlace(i) == [x |-> 50 + (i % 2) * 600, y |-> 50 + (i \div 2) * 400]

\* C24: a visual built without a zone, on the page of its worksheet in a
\* workbook without dashboards or on the page of a dashboard of which no zone
\* resolves, is placed where the grid puts the order index of its worksheet.
C24_GridPlacement ==
  Transformed =>
    /\ Len(tableau_workbook.dashboards) = 0 =>
         \A i \in 1..Len(tableau_workbook.worksheets) :
           /\ report.val.pages[i].visuals[1].x = GridPlace(i - 1).x
           /\ report.val.pages[i].visuals[1].y = GridPlace(i - 1).y
    /\ \A d \in 1..Len(tableau_workbook.dashboards) :
         Len(ResolvedZones(tableau_workbook.dashboards[d], tableau_workbook)) = 0 =>
           \A i \in 1..Len(tableau_workbook.worksheets) :
             /\ report.val.pages[d].visuals[i].x = GridPlace(i - 1).x
             /\ report.val.pages[d].visuals[i].y = GridPlace(i - 1).y

\* the reasons with which the translator rejects a formula as a
\* level-of-detail expression
LodReasons ==
  {"LOD Expression ("}
    \cup {UNSUPPORTED_FUNCTIONS[k].reason :
            k \in {j \in 1..Len(UNSUPPORTED_FUNCTIONS) :
                     UNSUPPORTED_FUNCTIONS[j].name \in LodKeywordSet}}

\* the reasons with which the translator rejects a formula as a table
\* calculation
TableCalcReasons ==
  {UNSUPPORTED_FUNCTIONS[k].reason :
     k \in {j \in 1..Len(UNSUPPORTED_FUNCTIONS) :
              UNSUPPORTED_FUNCTIONS[j].name \notin LodKeywordSet}}
    \ {"R/Python Integration"}

\* the calculated fields of a workbook whose formula translate rejects with
\* one of the reasons
RejectedFields(workbook, reasons) ==
  UNION { {f \in Items(d.calculated_fields) :
             /\ ~Falsy(f.calculation)
             /\ Translation(<<"D", "a", "t", "a">>, f.calculation.val).result.reason.some
             /\ Translation(<<"D", "a", "t", "a">>, f.calculation.val).result.reason.val.prefix
                  \in reasons} :
          d \in Items(workbook.datasources) }

\* C26: the dual-axis bucket of the report holds the name of the worksheet of
\* every visual built from a dual-axis worksheet, and the level-of-detail and
\* table-calculation buckets hold the name of every calculated field whose
\* formula translate rejects as the one or the other.
C26_BookkeepingComplete ==
  Transformed =>
    /\ \A v \in VisualsOf(report.val.pages) :
         WorksheetOf(v).is_dual_axis =>
           WorksheetOf(v).name \in Items(report.val.unsupported_features.dual_axis_charts)
    /\ \A f \in RejectedFields(tableau_workbook, LodReasons) :
         f.name \in Items(report.val.unsupported_features.lod_expressions)
    /\ \A f \in RejectedFields(tableau_workbook, TableCalcReasons) :
         f.name \in Items(report.val.unsupported_features.table_calculations)

\* the zones of the workbook have coordinates that are not negative and sizes
\* that are positive
ZonesInRange(workbook) ==
  \A d \in Items(workbook.dashboards) :
    \A z \in Items(d.zones) : z.x >= 0 /\ z.y >= 0 /\ z.width > 0 /\ z.height > 0

\* C27: for a workbook whose zones are in range, every visual of every page
\* of the report lies within the canvas of its page.
C27_VisualsWithinPage ==
  (Transformed /\ ZonesInRange(tableau_workbook)) =>
    \A p \in Items(report.val.pages) :
      \A v \in Items(p.visuals) :
        /\ v.x >= 0
        /\ v.y >= 0
        /\ v.x + v.width <= p.width
        /\ v.y + v.height <= p.height

\* the names of the field references of a formula that translate qualifies
FieldReferences(formula) ==
  {SubSeq(formula, i + 1, FieldAt(formula, i) - 1) :
     i \in {j \in 1..Len(formula) : FieldAt(formula, j) # 0}}

\* C29: the translated expression of a measure holds, for every field
\* reference [f] of the source formula that translate qualifies, the
\* reference 'T'[f] with T the name of the table the measure is attached to
\* and f as written in the source formula.
C29_QualifiedByOwnTable ==
  Transformed =>
    \A t \in Items(report.val.dataset.tables) :
      \A m \in Items(t.measures) :
        m.dax_expression.some =>
          \A f \in FieldReferences(m.expression) :
            ContainsStr(m.dax_expression.val,
                        <<"'">> \o t.name \o <<"'">> \o Bracketed(f))

(***************************************************************************)
(* Properties of two calls of transform.                                   *)
(***************************************************************************)
\* C13: a second call of transform on a workbook equal to the first one returns
\* a report equal to the one the first call returned.
C13_Deterministic ==
  [][(pc = "transformed" /\ pc' = "transformed_again"
        /\ later_workbook' = tableau_workbook) => later_report' = report]_vars

\* the names of the calculated fields of a kind
CalculatedNames(workbook, calculation_type) ==
  UNION { {f.name : f \in {g \in Items(d.calculated_fields) :
                             g.calculation_type = calculation_type}} :
          d \in Items(workbook.datasources) }

\* the names of the dual-axis worksheets
DualAxisNames(workbook) ==
  {w.name : w \in {x \in Items(workbook.worksheets) : x.is_dual_axis}}

\* C14: a second call of transform changes no field of the report the first
\* call returned, and the warnings and the unsupported features of the report
\* it returns arise from its own workbook.
C14_RunsIndependent ==
  [][(pc = "transformed" /\ pc' = "transformed_again") =>
       /\ report' = report
       /\ later_report'.val.migration_warnings = <<>>
       /\ Items(later_report'.val.unsupported_features.lod_expressions)
            \subseteq CalculatedNames(later_workbook', "LOD")
       /\ Items(later_report'.val.unsupported_features.table_calculations)
            \subseteq CalculatedNames(later_workbook', "TABLE_CALC")
       /\ Items(later_report'.val.unsupported_features.dual_axis_charts)
            \subseteq DualAxisNames(later_workbook')
       /\ later_report'.val.unsupported_features.other = <<>>]_vars

(***************************************************************************)
(* Properties of _sanitize_name.                                           *)
(***************************************************************************)
\* C11: sanitizing a sanitized name changes nothing; no name, the empty one
\* included, sanitizes to the empty name; a name that starts with a digit gets
\* an underscore before it ("123abc" gives "_123abc"); "a b!c" gives "a_bc".
C11_SanitizeIdempotent ==
  /\ pc = "resanitized" => safe_again = safe_name
  /\ pc # "new" =>
       /\ Len(safe_name.val) > 0
       /\ (Len(raw_name) > 0 /\ raw_name[1] \in Digits) => safe_name.val[1] = "_"
       /\ raw_name = <<"1", "2", "3", "a", "b", "c">> => safe_name = Some(<<"_", "1", "2", "3", "a", "b", "c">>)
       /\ raw_name = <<"a", " ", "b", "!", "c">> => safe_name = Some(<<"a", "_", "b", "c">>)

\* C11 witness: "123abc" was sanitized to "_123abc", and that again to itself
C11_Witness ==
  /\ pc = "resanitized"
  /\ raw_name = <<"1", "2", "3", "a", "b", "c">>
  /\ safe_name = Some(<<"_", "1", "2", "3", "a", "b", "c">>)
  /\ safe_again = Some(<<"_", "1", "2", "3", "a", "b", "c">>)

(***************************************************************************)
(* Properties of _qualify_field_references.                                *)
(***************************************************************************)
\* C15: a field reference [f] is rewritten to 'owning_table'[f], a reference
\* that is table-qualified, as Table[f] or as 'Table'[f], is left unchanged,
\* and qualifying a qualified formula again changes nothing.
C15_QualifyOnlyUnqualified ==
  /\ pc # "new" =>
       \A q \in Qualifiers, f \in FieldNames :
         calculation = Some(q \o Bracketed(f)) =>
           qualified_formula =
             Some((IF q = <<>> THEN <<"'">> \o translator \o <<"'">> ELSE q)
                    \o Bracketed(f))
  /\ pc = "requalified" => requalified_formula = qualified_formula

(***************************************************************************)
(* Properties of the pipeline.                                             *)
(***************************************************************************)
\* C19: run returns one MigrationReport per file found, in the order of the
\* files; the report of a file has success = true when no stage raised and
\* success = false with an error message when a stage raised.
C19_OneReportPerFile ==
  pc \in {"ran", "ran_again"} =>
    /\ ~returned.val.raised
    /\ Len(returned.val.reports) = Len(twbx_files)
    /\ \A i \in 1..Len(returned.val.reports) :
         /\ i <= Len(twbx_files)
         /\ returned.val.reports[i].source_file = twbx_files[i].path
         /\ returned.val.reports[i].success <=>
              (twbx_files[i].raises \notin {"extract", "transform", "generate"})
         /\ ~returned.val.reports[i].success =>
              returned.val.reports[i].error_message.some

\* C30: when _process_file returns for a file whose extraction returned and
\* made a temporary directory, the directory has been removed, whether the
\* later stages succeeded or raised.
C30_CleanupBeforeReturn ==
  (pc = "returned" /\ twbx_files[Len(migration_reports)].raises # "extract")
    => temp_dir # "created"

====
